---- MODULE Spec2Model ----
(***************************************************************************)
(* CXL socket transport (hw/pci-bridge/cxl_socket_transport.c): packet     *)
(* framing, the packet catalog, the blocking wait operations and the       *)
(* packet encoders, as a state machine.                                    *)
(*                                                                         *)
(* Bytes are naturals 0..255.  Buffers and the byte stream are sequences;  *)
(* C index i is sequence position i + 1.  Integers wider than 31 bits are  *)
(* little-endian byte sequences (the host is little-endian).               *)
(***************************************************************************)
EXTENDS Integers, Sequences, FiniteSets, TLC

\* ---------------------------------------------------------------- constants
MAX_TAG == 512
MAX_PAYLOAD_SIZE == 512
MAX_DURATION == 5

\* Packet layouts come from hw/cxl/cxl_emulator_packet.h.
SIZEOF_system_header_packet_t == 2
SIZEOF_base_sideband_packet_t == 3
SIZEOF_cxl_mem_s2m_ndr_packet_t == 8
SIZEOF_cxl_mem_s2m_drs_packet_t == 72
SIZEOF_cxl_io_completion_packet_t == 14
SIZEOF_cxl_io_completion_data_packet_32b_t == 18
SIZEOF_cxl_io_completion_data_packet_64b_t == 22

\* payload_type_t
CXL_IO == 1
CXL_MEM == 2
SIDEBAND == 15

\* size_t arithmetic wraps; the model's integers are narrower than 64 bits,
\* so the modulus is 2^30: every wrapped value is compared only with
\* quantities below 2^13.
SIZE_T_MODULUS == 1024 * 1024 * 1024

\* ------------------------------------------------------------------ bounds
\* packets the peer puts on the stream during a run
MaxPeerPackets == 2
\* disturbed reads of a run: a read that returns fewer bytes than were
\* asked for and available, or takes SlowRead seconds to return its data, or
\* fails although the peer has more bytes to send
MaxDisturbedReads == 2
\* largest partial read, counted from the front of what is available
MaxChunk == 1
\* complete requests a caller puts on the connection during a run
MaxRequests == 2
\* seconds a slow read takes before it returns data
SlowRead == 3

\* ----------------------------------------------------------------- helpers
Min(a, b) == IF a < b THEN a ELSE b
Max(a, b) == IF a > b THEN a ELSE b

UNINIT == -1

AllOnes32 == <<255, 255, 255, 255>>
Zero32 == <<0, 0, 0, 0>>

\* body filler of a packet: position-dependent, so that a shifted or
\* truncated copy differs from the original
Fill(from, n, seed) == [i \in 1..n |-> ((from + i) * 7 + seed) % 256]

\* system_header_packet_t: payload_type in bits 0..3, payload_length in bits
\* 4..15 of a little-endian 16-bit word
SystemHeader(type, len) ==
    LET w == (type % 16) + 16 * (len % 4096)
    IN  <<w % 256, w \div 256>>

payload_type(buf) == (buf[1] + 256 * buf[2]) % 16
payload_length(buf) == (buf[1] + 256 * buf[2]) \div 16

MkPacket(type, declared, body) == SystemHeader(type, declared) \o body

\* memcpy(dst, src, n) on a catalog packet array whose bytes beyond Len(dst)
\* are still the zeroes of static initialisation
memcpy(dst, src, n) ==
    [i \in 1..Max(n, Len(dst)) |->
        IF i <= n THEN (IF i <= Len(src) THEN src[i] ELSE UNINIT)
        ELSE dst[i]]

\* the first n bytes of a catalog entry's packet array
EntryBytes(e, n) ==
    [i \in 1..n |-> IF i <= Len(e.packet) THEN e.packet[i] ELSE 0]

\* uint32 data field at byte offset off of a packet array
Field32(e, off) == [i \in 1..4 |-> EntryBytes(e, off + 4)[off + i]]
Field64(e, off) == [i \in 1..8 |-> EntryBytes(e, off + 8)[off + i]]
ZeroExtend64(d32) == d32 \o Zero32

\* ------------------------------------------------------------------- state
VARIABLES
    packet_entries,     \* packet_table_entry_t packet_entries[512]: the
                        \* entries that differ from the all-zero entry
    stream,             \* bytes the peer sends, sooner or later
    pc,                 \* position of the single caller thread
    op,                 \* the operation in progress and its arguments
    ret,                \* its result, once pc = "done"
    data,               \* the caller's variable behind the data pointer
    buffer,             \* process_incoming_packets: uint8_t buffer[512]
    buffer_offset,      \* where the current wait_for_payload writes
    buffer_size,        \* wait_for_payload: buffer_size
    payload_size,       \* wait_for_payload: payload_size
    total_bytes_read,   \* wait_for_payload: total_bytes_read
    elapsed,            \* difftime(current_time, start_time)
    net_left,           \* disturbed reads the network may still produce
    oob,                \* one past the highest buffer index written, if > 512
    fail_cause,         \* why the last receive failed
    nrecv,              \* process_incoming_packets calls of this wait
    consumed,           \* bytes this receive took from the stream
    entries_before,     \* catalog when the operation started
    stream_before,      \* stream when the current receive started
    last_view,          \* what the previous operation returned, if a wait
    sent,               \* the write() of the send operation in progress
    tag_out,            \* the caller's variable behind the tag pointer
    syscalls,           \* create_socket_client: the system calls it made
    exchange,           \* requests put on the connection, and the one the
                        \* last wait was started for
    fixed_windows,      \* cxl_state->fixed_windows
    errp,               \* *errp of the machine property being set
    forwarded           \* the device calls of the operation in progress

vars == <<packet_entries, stream, pc, op, ret, data, buffer,
          buffer_offset, buffer_size, payload_size, total_bytes_read,
          elapsed, net_left, oob, fail_cause, nrecv, consumed, entries_before,
          stream_before, last_view, sent, tag_out, syscalls, exchange,
          fixed_windows, errp, forwarded>>

\* the state of the CXL host: fixed memory windows and their dispatch
host_vars == <<fixed_windows, errp, forwarded>>

recv_locals == <<buffer, buffer_offset, buffer_size, payload_size,
                 total_bytes_read, elapsed>>


\* an entry as static initialisation leaves it: all bytes zero, size zero
EmptyEntry == [packet |-> <<>>, packet_size |-> 0]
EmptyCatalog == [t \in {} |-> EmptyEntry]

\* packet_entries[tag], for 0 <= tag < MAX_TAG
Entry(entries, tag) ==
    IF tag \in DOMAIN entries THEN entries[tag] ELSE EmptyEntry

\* the array with packet_entries[tag] set to e
Put(entries, tag, e) ==
    IF e = EmptyEntry
    THEN [t \in DOMAIN entries \ {tag} |-> entries[t]]
    ELSE [t \in DOMAIN entries \cup {tag} |->
             IF t = tag THEN e ELSE entries[t]]

NoOp == [name |-> "none", tag |-> 0, data_null |-> TRUE]
NoRet == [type |-> "none", bytes |-> <<>>, n |-> 0]
NoView == [name |-> "none", tag |-> 0, data_null |-> TRUE, ret |-> NoRet,
           data |-> <<>>]
NoSent == [called |-> FALSE, len |-> 0, asked |-> 0, pkt |-> <<>>]
NoTag == -1
\* *errp == NULL: no error has been reported
NoErr == ""

\* the state after program start, the peer's bytes aside
Start ==
    /\ packet_entries = EmptyCatalog
    /\ pc = "idle"
    /\ op = NoOp
    /\ ret = NoRet
    /\ data = <<>>
    /\ buffer = <<>>
    /\ buffer_offset = 0
    /\ buffer_size = 0
    /\ payload_size = 0
    /\ total_bytes_read = 0
    /\ elapsed = 0
    /\ net_left = MaxDisturbedReads
    /\ oob = 0
    /\ fail_cause = "none"
    /\ nrecv = 0
    /\ consumed = 0
    /\ entries_before = packet_entries
    /\ stream_before = <<>>
    /\ last_view = NoView
    /\ sent = NoSent
    /\ tag_out = NoTag
    /\ syscalls = <<>>
    /\ exchange = [req |-> 0, waited |-> 0]
    /\ fixed_windows = <<>>
    /\ errp = NoErr
    /\ forwarded = <<>>


\* -------------------------------------------------------------------- peer
Data32 == {AllOnes32, <<120, 86, 52, 18>>}
Data64 == {<<239, 205, 171, 137, 103, 69, 35, 1>>}

HDR == SIZEOF_system_header_packet_t

CplHeader(seed) ==
    Fill(HDR, SIZEOF_cxl_io_completion_packet_t - HDR, seed)

\* the six response kinds of the protocol
ResponsePackets ==
    {MkPacket(SIDEBAND, SIZEOF_base_sideband_packet_t,
              Fill(HDR, SIZEOF_base_sideband_packet_t - HDR, 0)),
     MkPacket(CXL_MEM, SIZEOF_cxl_mem_s2m_ndr_packet_t,
              Fill(HDR, SIZEOF_cxl_mem_s2m_ndr_packet_t - HDR, 1)),
     MkPacket(CXL_MEM, SIZEOF_cxl_mem_s2m_drs_packet_t,
              Fill(HDR, SIZEOF_cxl_mem_s2m_drs_packet_t - HDR, 2)),
     MkPacket(CXL_IO, SIZEOF_cxl_io_completion_packet_t, CplHeader(3))}
    \cup {MkPacket(CXL_IO, SIZEOF_cxl_io_completion_data_packet_32b_t,
                   CplHeader(3) \o d) : d \in Data32}
    \cup {MkPacket(CXL_IO, SIZEOF_cxl_io_completion_data_packet_64b_t,
                   CplHeader(3) \o d) : d \in Data64}

\* packets at the limits of the framing: the largest legal packet, a
\* header-only packet, two ordinary completions, packets that declare more
\* than the receive buffer holds (sent whole, and cut short), one that
\* declares less than a header, and a completion the peer stops sending
\* half way
FramingPackets ==
    {MkPacket(CXL_IO, MAX_PAYLOAD_SIZE, Fill(HDR, MAX_PAYLOAD_SIZE - HDR, 5)),
     MkPacket(CXL_IO, HDR, <<>>),
     MkPacket(CXL_IO, SIZEOF_cxl_io_completion_packet_t, CplHeader(3)),
     MkPacket(CXL_MEM, SIZEOF_cxl_mem_s2m_ndr_packet_t,
              Fill(HDR, SIZEOF_cxl_mem_s2m_ndr_packet_t - HDR, 1)),
     MkPacket(CXL_IO, MAX_PAYLOAD_SIZE + 1,
              Fill(HDR, MAX_PAYLOAD_SIZE + 1 - HDR, 6)),
     MkPacket(CXL_IO, MAX_PAYLOAD_SIZE + 100, Fill(HDR, 20, 7)),
     MkPacket(CXL_IO, 1, <<>>),
     MkPacket(CXL_IO, 0, <<>>),
     MkPacket(CXL_IO, SIZEOF_cxl_io_completion_packet_t, Fill(HDR, 5, 3))}

\* what the peer sends during a run: up to n packets of the menu.  Bytes on
\* `stream` are bytes the peer sends sooner or later: when they arrive is
\* decided by each read.
RECURSIVE Scripts(_, _)
Scripts(menu, n) ==
    IF n = 0 THEN {<<>>}
    ELSE LET S == Scripts(menu, n - 1)
         IN  S \cup {x \o p : x \in S, p \in menu}

Init == Start /\ stream \in Scripts(ResponsePackets, MaxPeerPackets)

InitFraming == Start /\ stream \in Scripts(FramingPackets, MaxPeerPackets)

\* ----------------------------------------------------------------- catalog
NULL == -1

\* a tag source that counts
get_next_tag_Counting == 0 + 1

\* get_next_tag: every request gets tag 0
get_next_tag == 0

\* get_packet_entry: a pointer to the entry (its index), or NULL
get_packet_entry(tag) == IF tag >= MAX_TAG THEN NULL ELSE tag

\* release_packet_entry with the range check off by one
release_packet_entry_OffByOne(entries, tag) ==
    IF tag > MAX_TAG
    THEN [entries |-> entries, result |-> FALSE]
    ELSE [entries |-> Put(entries, tag,
                          [Entry(entries, tag) EXCEPT !.packet_size = 0]),
          result |-> TRUE]

\* release_packet_entry: the catalog afterwards and the value returned
release_packet_entry(entries, tag) ==
    IF tag >= MAX_TAG
    THEN [entries |-> entries, result |-> FALSE]
    ELSE [entries |-> Put(entries, tag,
                          [Entry(entries, tag) EXCEPT !.packet_size = 0]),
          result |-> TRUE]

\* the store without its assertion
StoreAssertion_Unchecked(entry) == TRUE

\* assert(packet_entries[tag].packet_size == 0) in process_incoming_packets
StoreAssertion(entry) == entry.packet_size = 0

\* a store that files the packet one slot further
StorePacket_NextSlot(entries, tag, buf, len) ==
    Put(entries, tag + 1,
        [packet |-> memcpy(Entry(entries, tag + 1).packet, buf, len),
         packet_size |-> len])

\* memcpy + packet_size assignment in process_incoming_packets
StorePacket(entries, tag, buf, len) ==
    Put(entries, tag,
        [packet |-> memcpy(Entry(entries, tag).packet, buf, len),
         packet_size |-> len])


\* ------------------------------------------------------------ wait: results
CPL == SIZEOF_cxl_io_completion_packet_t
CPL32 == SIZEOF_cxl_io_completion_data_packet_32b_t
CPL64 == SIZEOF_cxl_io_completion_data_packet_64b_t

WaitNames ==
    {"wait_for_base_sideband_packet", "wait_for_cxl_mem_completion",
     "wait_for_cxl_mem_mem_data", "wait_for_cxl_io_completion",
     "wait_for_cxl_io_completion_data", "wait_for_cxl_io_cfg_completion"}

\* outcome of one pass through the head of a wait loop
Return(r, d) == [kind |-> "return", ret |-> r, data |-> d]
AssertFail(line, d) ==
    [kind |-> "assert", ret |-> [type |-> "assert", bytes |-> <<>>,
                                 n |-> line], data |-> d]
Receive(d) == [kind |-> "receive", ret |-> NoRet, data |-> d]

PacketView(entry, size) ==
    [type |-> "packet", bytes |-> EntryBytes(entry, size), n |-> size]
NullPtr == [type |-> "NULL", bytes |-> <<>>, n |-> 0]
Size(n) == [type |-> "size", bytes |-> <<>>, n |-> n]
Void == [type |-> "void", bytes |-> <<>>, n |-> 0]

\* loop heads, one per wait function: entry is *get_packet_entry(tag),
\* data_null says whether the data pointer is NULL, d is *data
wait_for_base_sideband_packet(entry, d) ==
    IF entry.packet_size = SIZEOF_base_sideband_packet_t
    THEN Return(PacketView(entry, SIZEOF_base_sideband_packet_t), d)
    ELSE Receive(d)

\* the no-data completion wait comparing with the size of the data response
wait_for_cxl_mem_completion_WrongSize(entry, d) ==
    IF entry.packet_size = SIZEOF_cxl_mem_s2m_drs_packet_t
    THEN Return(PacketView(entry, SIZEOF_cxl_mem_s2m_ndr_packet_t), d)
    ELSE Receive(d)

wait_for_cxl_mem_completion(entry, d) ==
    IF entry.packet_size = SIZEOF_cxl_mem_s2m_ndr_packet_t
    THEN Return(PacketView(entry, SIZEOF_cxl_mem_s2m_ndr_packet_t), d)
    ELSE Receive(d)

wait_for_cxl_mem_mem_data(entry, d) ==
    IF entry.packet_size = SIZEOF_cxl_mem_s2m_drs_packet_t
    THEN Return(PacketView(entry, SIZEOF_cxl_mem_s2m_drs_packet_t), d)
    ELSE Receive(d)

wait_for_cxl_io_completion(entry, d) ==
    IF entry.packet_size > 0
    THEN IF entry.packet_size = CPL
         THEN Return(PacketView(entry, CPL), d)
         ELSE AssertFail(522, d)
    ELSE Receive(d)

wait_for_cxl_io_completion_data(entry, d) ==
    IF entry.packet_size > 0
    THEN IF entry.packet_size = CPL32 \/ entry.packet_size = CPL64
         THEN IF entry.packet_size = CPL32
              THEN Return(Size(entry.packet_size),
                          ZeroExtend64(Field32(entry, CPL)))
              ELSE Return(Size(entry.packet_size), Field64(entry, CPL))
         ELSE AssertFail(547, d)
    ELSE Receive(d)

\* a cfg wait that reports a completion without data as the value 0
wait_for_cxl_io_cfg_completion_Zero(entry, data_null, d) ==
    IF entry.packet_size > 0
    THEN IF entry.packet_size = CPL
         THEN Return(Void, IF data_null THEN d ELSE Zero32)
         ELSE Return(Void, Field32(entry, CPL))
    ELSE Receive(d)

wait_for_cxl_io_cfg_completion(entry, data_null, d) ==
    IF entry.packet_size > 0
    THEN IF data_null /\ entry.packet_size # CPL
         THEN AssertFail(579, d)
         ELSE IF ~data_null /\ ~(entry.packet_size = CPL
                                  \/ entry.packet_size = CPL32)
         THEN AssertFail(582, d)
         ELSE IF entry.packet_size = CPL
         THEN Return(Void, IF data_null THEN d ELSE AllOnes32)
         ELSE Return(Void, Field32(entry, CPL))
    ELSE Receive(d)

WaitHead(o, entry, d) ==
    CASE o.name = "wait_for_base_sideband_packet" ->
             wait_for_base_sideband_packet(entry, d)
      [] o.name = "wait_for_cxl_mem_completion" ->
             wait_for_cxl_mem_completion(entry, d)
      [] o.name = "wait_for_cxl_mem_mem_data" ->
             wait_for_cxl_mem_mem_data(entry, d)
      [] o.name = "wait_for_cxl_io_completion" ->
             wait_for_cxl_io_completion(entry, d)
      [] o.name = "wait_for_cxl_io_completion_data" ->
             wait_for_cxl_io_completion_data(entry, d)
      [] o.name = "wait_for_cxl_io_cfg_completion" ->
             wait_for_cxl_io_cfg_completion(entry, o.data_null, d)

\* what a wait hands back when process_incoming_packets returned false
WaitFailure(name) ==
    CASE name \in {"wait_for_base_sideband_packet",
                   "wait_for_cxl_mem_completion",
                   "wait_for_cxl_mem_mem_data",
                   "wait_for_cxl_io_completion"} -> NullPtr
      [] name = "wait_for_cxl_io_completion_data" -> Size(0)
      [] name = "wait_for_cxl_io_cfg_completion" -> Void


\* ----------------------------------------------------------- wait: actions
\* tag 0 is what get_next_tag hands out; the others are what a caller could
\* pass instead
WaitTags == {0, 1, MAX_TAG}
ReleaseTags == {0, 1, MAX_TAG - 1, MAX_TAG, MAX_TAG + 1, 65535}
DataInit32 == {AllOnes32, Zero32}
DataInit64 == {ZeroExtend64(AllOnes32)}

StartWait(name, tag, data_null, d) ==
    /\ pc = "idle"
    /\ UNCHANGED host_vars
    /\ pc' = "wait_loop"
    /\ op' = [name |-> name, tag |-> tag, data_null |-> data_null]
    /\ data' = d
    /\ exchange' = [exchange EXCEPT !.waited = exchange.req]
    /\ entries_before' = packet_entries
    /\ UNCHANGED <<packet_entries, stream, ret, recv_locals,
                   net_left, oob, fail_cause, nrecv, consumed,
                   stream_before, last_view, sent, tag_out, syscalls>>

\* the caller enters one of the six wait functions
CallWait ==
    \/ StartWait("wait_for_base_sideband_packet", 0, TRUE, <<>>)
    \/ \E tag \in WaitTags :
         StartWait("wait_for_cxl_mem_completion", tag, TRUE, <<>>)
    \/ \E tag \in WaitTags :
         StartWait("wait_for_cxl_mem_mem_data", tag, TRUE, <<>>)
    \/ \E tag \in WaitTags :
         StartWait("wait_for_cxl_io_completion", tag, TRUE, <<>>)
    \/ \E tag \in WaitTags, d \in DataInit64 :
         StartWait("wait_for_cxl_io_completion_data", tag, FALSE, d)
    \/ \E tag \in WaitTags :
         \/ StartWait("wait_for_cxl_io_cfg_completion", tag, TRUE, <<>>)
         \/ \E d \in DataInit32 :
              StartWait("wait_for_cxl_io_cfg_completion", tag, FALSE, d)

\* the caller waits for a response with the tag get_next_tag hands out
CallWaitFraming ==
    \/ \E name \in {"wait_for_base_sideband_packet",
                     "wait_for_cxl_mem_completion",
                     "wait_for_cxl_mem_mem_data",
                     "wait_for_cxl_io_completion"} :
         StartWait(name, get_next_tag, TRUE, <<>>)
    \/ \E d \in DataInit64 :
         StartWait("wait_for_cxl_io_completion_data", get_next_tag, FALSE, d)
    \/ StartWait("wait_for_cxl_io_cfg_completion", get_next_tag, FALSE,
                 AllOnes32)

\* entry of process_incoming_packets and of wait_for_system_header
EnterReceive ==
    /\ pc' = "hdr"
    /\ buffer' = <<>>
    /\ buffer_offset' = 0
    /\ buffer_size' = MAX_PAYLOAD_SIZE
    /\ payload_size' = SIZEOF_system_header_packet_t
    /\ total_bytes_read' = 0
    /\ elapsed' = 0
    /\ nrecv' = nrecv + 1
    /\ consumed' = 0
    /\ fail_cause' = "none"
    /\ entries_before' = packet_entries
    /\ stream_before' = stream
    /\ UNCHANGED <<packet_entries, stream, op, ret, data,
                   net_left, oob, last_view, sent, tag_out, syscalls, exchange>>

\* the head of the while (true) loop of the wait function in progress
WaitLoop ==
    /\ pc = "wait_loop"
    /\ UNCHANGED host_vars
    /\ LET e == get_packet_entry(op.tag)
       IN  IF e = NULL
           THEN \* entry->packet_size through a NULL pointer
                /\ pc' = "crash"
                /\ UNCHANGED <<packet_entries, stream, op, ret,
                               data, recv_locals, net_left, oob,
                               fail_cause, nrecv, consumed, entries_before,
                               stream_before, last_view, sent, tag_out,
                               syscalls, exchange>>
           ELSE LET o == WaitHead(op, Entry(packet_entries, e), data)
                IN  \/ /\ o.kind = "return"
                       /\ pc' = "done"
                       /\ ret' = o.ret
                       /\ data' = o.data
                       /\ UNCHANGED <<packet_entries, stream, op,
                                      recv_locals, net_left, oob,
                                      fail_cause, nrecv, consumed,
                                      entries_before, stream_before,
                                      last_view, sent, tag_out, syscalls,
                                      exchange>>
                    \/ /\ o.kind = "assert"
                       /\ pc' = "abort"
                       /\ ret' = o.ret
                       /\ UNCHANGED <<packet_entries, stream, op,
                                      data, recv_locals, net_left, oob,
                                      fail_cause, nrecv, consumed,
                                      entries_before, stream_before,
                                      last_view, sent, tag_out, syscalls,
                                      exchange>>
                    \/ /\ o.kind = "receive"
                       /\ EnterReceive

\* ------------------------------------------------------------ framing reader
\* difftime(current_time, start_time) > MAX_DURATION
TimedOut(el) == el > MAX_DURATION

\* bytes_read > 0 && bytes_read + total_bytes_read > buffer_size
OverflowGuard(bytes_read, total, size) ==
    bytes_read > 0 /\ bytes_read + total > size

\* a read that asks for the whole payload again after a partial read
remaining_size_Whole(payload, total) == payload

\* size_t remaining_size = payload_size - total_bytes_read
remaining_size(payload, total) == payload - total

\* the most a read(fd, p, remaining) can return now
Available(remaining) == Min(remaining, Len(stream))

\* the byte counts a read may return with data
ReadSizes(remaining) ==
    LET m == Available(remaining)
    IN  IF m = 0 THEN {}
        ELSE {m} \cup (IF net_left > 0
                       THEN {k \in (1..MaxChunk) \cup {m - 1} :
                                k >= 1 /\ k < m}
                       ELSE {})

\* read() stores bytes at buffer[at ..]; what lands inside the array
BufWrite(buf, at, bytes) ==
    [i \in 1..Min(MAX_PAYLOAD_SIZE, Max(Len(buf), at + Len(bytes))) |->
        IF i > at /\ i <= at + Len(bytes) THEN bytes[i - at]
        ELSE IF i <= Len(buf) THEN buf[i] ELSE UNINIT]

\* a receive timeout written to tv_usec instead of tv_sec
SO_RCVTIMEO_Microseconds == MAX_DURATION \div 1000000

\* timeout.tv_sec = MAX_DURATION, set on the socket for receives
SO_RCVTIMEO == MAX_DURATION

\* the ways read() returns <= 0, and how long the call blocked: at once (the
\* peer closed, or an error), or when the receive timeout expired
ReadFailures ==
    {[cause |-> "read", d |-> 0], [cause |-> "rcvtimeo", d |-> SO_RCVTIMEO]}

\* a wait that goes round its loop again after a failed receive
FailReceive_Retry(cause) ==
    /\ pc' = "wait_loop"
    /\ ret' = ret
    /\ fail_cause' = cause

\* wait_for_payload and process_incoming_packets return false, and so the
\* wait in progress returns
FailReceive(cause) ==
    /\ pc' = "done"
    /\ ret' = WaitFailure(op.name)
    /\ fail_cause' = cause

\* one iteration of the while loop of wait_for_payload
wait_for_payload ==
    /\ pc \in {"hdr", "payload"}
    /\ UNCHANGED host_vars
    /\ total_bytes_read < payload_size
    /\ \/ /\ TimedOut(elapsed)
          /\ FailReceive("timeout")
          /\ UNCHANGED <<packet_entries, stream, op, data,
                         recv_locals, net_left, oob, nrecv, consumed,
                         entries_before, stream_before, last_view, sent,
                         tag_out, syscalls, exchange>>
       \/ \* read() returns 0 (peer closed) or -1 (error, or SO_RCVTIMEO
          \* after MAX_DURATION seconds without data)
          /\ ~TimedOut(elapsed)
          /\ net_left > 0 \/ Len(stream) = 0
          /\ net_left' = IF Len(stream) = 0 THEN net_left ELSE net_left - 1
          /\ \E f \in ReadFailures :
                /\ elapsed' = elapsed + f.d
                /\ FailReceive(f.cause)
          /\ UNCHANGED <<packet_entries, stream, op, data, buffer,
                         buffer_offset, buffer_size, payload_size,
                         total_bytes_read, oob,
                         nrecv, consumed, entries_before, stream_before,
                         last_view, sent, tag_out, syscalls, exchange>>
       \/ \* read() returns n bytes, already stored at buffer[total ..]
          /\ ~TimedOut(elapsed)
          /\ LET rem == remaining_size(payload_size, total_bytes_read)
                 at == buffer_offset + total_bytes_read
             IN  \E n \in ReadSizes(rem) :
                 \E d \in {0} \cup (IF net_left > 0 THEN {SlowRead} ELSE {}) :
                   /\ stream' = SubSeq(stream, n + 1, Len(stream))
                   /\ buffer' = BufWrite(buffer, at, SubSeq(stream, 1, n))
                   /\ oob' = IF at + n > MAX_PAYLOAD_SIZE
                             THEN Max(oob, at + n) ELSE oob
                   /\ consumed' = consumed + n
                   /\ elapsed' = elapsed + d
                   /\ net_left' = IF n < Available(rem) \/ d > 0
                                  THEN net_left - 1 ELSE net_left
                   /\ IF OverflowGuard(n, total_bytes_read, buffer_size)
                      THEN /\ UNCHANGED total_bytes_read
                           /\ \/ FailReceive("overflow")
                              \/ \* the stack beyond the array is overwritten
                                 /\ at + n > MAX_PAYLOAD_SIZE
                                 /\ pc' = "crash"
                                 /\ UNCHANGED <<ret, fail_cause>>
                      ELSE /\ total_bytes_read' = total_bytes_read + n
                           /\ UNCHANGED <<pc, ret, fail_cause>>
          /\ UNCHANGED <<packet_entries, op, data, buffer_offset,
                         buffer_size, payload_size, nrecv,
                         entries_before, stream_before, last_view, sent,
                         tag_out, syscalls, exchange>>

\* a subtraction that stops at 0 where the size_t one wraps
remaining_payload_size_Clamped(buf) ==
    Max(0, payload_length(buf) - SIZEOF_system_header_packet_t)

\* a second read that asks for the declared length, header included
remaining_payload_size_Total(buf) == payload_length(buf) % SIZE_T_MODULUS

\* system_header->payload_length - system_header_size, as a size_t
remaining_payload_size(buf) ==
    (payload_length(buf) - SIZEOF_system_header_packet_t) % SIZE_T_MODULUS

\* process_incoming_packets after a wait_for_payload that returned true
process_incoming_packets ==
    /\ pc \in {"hdr", "payload"}
    /\ UNCHANGED host_vars
    /\ total_bytes_read >= payload_size
    /\ \/ /\ pc = "hdr"
          /\ pc' = "payload"
          /\ buffer_offset' = SIZEOF_system_header_packet_t
          /\ buffer_size' = buffer_size - SIZEOF_system_header_packet_t
          /\ payload_size' = remaining_payload_size(buffer)
          /\ total_bytes_read' = 0
          /\ elapsed' = 0
          /\ UNCHANGED <<packet_entries, stream, op, ret, data,
                         buffer, net_left, oob, fail_cause, nrecv,
                         consumed, entries_before, stream_before, last_view,
                         sent, tag_out, syscalls, exchange>>
       \/ /\ pc = "payload"
          /\ IF StoreAssertion(Entry(packet_entries, 0))
             THEN /\ packet_entries' = StorePacket(packet_entries, 0, buffer,
                                                   payload_length(buffer))
                  /\ pc' = "wait_loop"
                  /\ UNCHANGED ret
             ELSE /\ pc' = "abort"
                  /\ ret' = [type |-> "assert", bytes |-> <<>>, n |-> 156]
                  /\ UNCHANGED packet_entries
          /\ UNCHANGED <<stream, op, data, recv_locals,
                         net_left, oob, fail_cause, nrecv, consumed,
                         entries_before, stream_before, last_view, sent,
                         tag_out, syscalls, exchange>>

\* ------------------------------------------------- catalog calls, returning
Bool(b) == [type |-> "bool", bytes |-> <<>>, n |-> IF b THEN 1 ELSE 0]
EntryPtr(e) == [type |-> "entry", bytes |-> <<>>, n |-> e]

Call_release_packet_entry ==
    /\ pc = "idle"
    /\ UNCHANGED host_vars
    /\ \E tag \in ReleaseTags :
         LET r == release_packet_entry(packet_entries, tag)
         IN  /\ packet_entries' = r.entries
             /\ ret' = Bool(r.result)
             /\ op' = [name |-> "release_packet_entry", tag |-> tag,
                       data_null |-> TRUE]
    /\ pc' = "done"
    /\ entries_before' = packet_entries
    /\ UNCHANGED <<stream, data, recv_locals, net_left, oob,
                   fail_cause, nrecv, consumed, stream_before, last_view,
                   sent, tag_out, syscalls, exchange>>

Call_get_packet_entry ==
    /\ pc = "idle"
    /\ UNCHANGED host_vars
    /\ \E tag \in ReleaseTags :
         /\ ret' = EntryPtr(get_packet_entry(tag))
         /\ op' = [name |-> "get_packet_entry", tag |-> tag,
                   data_null |-> TRUE]
    /\ pc' = "done"
    /\ entries_before' = packet_entries
    /\ UNCHANGED <<packet_entries, stream, data, recv_locals,
                   net_left, oob, fail_cause, nrecv, consumed,
                   stream_before, last_view, sent, tag_out, syscalls, exchange>>

\* the operation's frame is gone; the caller has its result
ReturnToCaller ==
    /\ pc = "done"
    /\ pc' = "idle"
    /\ last_view' =
         IF op.name \in WaitNames /\ fail_cause = "none"
         THEN [name |-> op.name, tag |-> op.tag, data_null |-> op.data_null,
               ret |-> ret, data |-> data]
         ELSE NoView
    /\ op' = NoOp
    /\ ret' = NoRet
    /\ data' = <<>>
    /\ buffer' = <<>>
    /\ buffer_offset' = 0
    /\ buffer_size' = 0
    /\ payload_size' = 0
    /\ total_bytes_read' = 0
    /\ elapsed' = 0
    /\ oob' = 0
    /\ fail_cause' = "none"
    /\ nrecv' = 0
    /\ consumed' = 0
    /\ entries_before' = packet_entries
    /\ stream_before' = <<>>
    /\ sent' = NoSent
    /\ tag_out' = NoTag
    /\ syscalls' = <<>>
    /\ forwarded' = <<>>
    /\ UNCHANGED <<packet_entries, stream, net_left, exchange,
                   fixed_windows, errp>>

\* ------------------------------------------------------------ packet encoder
\* Values wider than 31 bits are little-endian byte sequences.
AllOnes64 == <<255, 255, 255, 255, 255, 255, 255, 255>>
Max32As64 == ZeroExtend64(AllOnes32)

\* a < b for two unsigned values of the same width
Less(a, b) ==
    \E i \in 1..Len(a) :
        /\ a[i] < b[i]
        /\ \A j \in (i + 1)..Len(a) : a[j] = b[j]

\* (uint32_t)(val & 0xFFFFFFFF)
Low32(val) == SubSeq(val, 1, 4)

\* htonll on the little-endian host: the bytes in reverse order
htonll(v) == [i \in 1..8 |-> v[9 - i]]

\* htons on the little-endian host
htons(x) == ((x % 256) * 256) + ((x \div 256) % 256)

\* x >> 8 in the place of the mask
Low56_Shifted(v) == SubSeq(v, 2, 8)

\* x & 0xFFFFFFFFFFFFFF: the low 56 bits
Low56(v) == SubSeq(v, 1, 7)

round_up_to_nearest_dword(number) == (number + 3) - ((number + 3) % 4)

\* extract16 with start and length exchanged
EXTRACT_UPPER_2_Swapped(length) == (length \div 4) % 256

EXTRACT_UPPER_2(length) == (length \div 256) % 4
EXTRACT_LOWER_8(length) == length % 256

SIZEOF_cxl_io_mem_wr_packet_32b_t == 22
SIZEOF_cxl_io_mem_wr_packet_64b_t == 26
SIZEOF_cxl_io_cfg_rd_packet_t == 14
SIZEOF_cxl_io_cfg_wr_packet_t == 18

\* what a send function does before write(): it fails an assertion, or has a
\* packet of len bytes to write
Asserts(line) == [assert |-> line, len |-> 0, pkt |-> <<>>]
Writes(len, pkt) == [assert |-> 0, len |-> len, pkt |-> pkt]

\* the mreq_header_t both memory write variants fill in
mreq_header(hpa, tag) ==
    [req_id |-> 0, tag |-> tag,
     addr_lower |-> (hpa[1] % 256) \div 4,
     addr_upper |-> Low56(htonll(hpa))]

\* assert(val < 0xFFFFFFFFFFFFFFFF) and assert(val < 0xFFFFFFFF)
ValAssertion64(val) == Less(val, AllOnes64)
ValAssertion32(val) == Less(val, Max32As64)

send_cxl_io_mem_write(hpa, val, size, tag) ==
    LET hdr_length == round_up_to_nearest_dword(size) \div 4
        io_header(fmt) ==
            [fmt_type |-> fmt,
             length_upper |-> EXTRACT_UPPER_2(hdr_length),
             length_lower |-> EXTRACT_LOWER_8(hdr_length)]
    IN  IF size % 4 # 0 THEN Asserts(355)
        ELSE IF size > 4
        THEN IF size # 8 THEN Asserts(364)
             ELSE IF ~ValAssertion64(val) THEN Asserts(365)
             ELSE Writes(SIZEOF_cxl_io_mem_wr_packet_64b_t,
                    [system_header |->
                         [payload_type |-> CXL_IO,
                          payload_length |->
                              SIZEOF_cxl_io_mem_wr_packet_64b_t],
                     cxl_io_header |-> io_header("MWR_64B"),
                     mreq_header |-> mreq_header(hpa, tag),
                     data |-> val])
        ELSE IF size # 4 THEN Asserts(383)
             ELSE IF ~ValAssertion32(val) THEN Asserts(384)
             ELSE Writes(SIZEOF_cxl_io_mem_wr_packet_32b_t,
                    [system_header |->
                         [payload_type |-> CXL_IO,
                          payload_length |->
                              SIZEOF_cxl_io_mem_wr_packet_32b_t],
                     cxl_io_header |-> io_header("MWR_32B"),
                     mreq_header |-> mreq_header(hpa, tag),
                     data |-> Low32(val)])

\* first_dw_be after the loop: one bit per byte lane offset .. offset+size-1,
\* kept in a uint8_t
RECURSIVE ByteEnable(_, _)
ByteEnable(offset, size) ==
    IF size = 0 THEN 0
    ELSE (2 ^ offset + ByteEnable(offset + 1, size - 1)) % 256

ZeroCfgReqHeader ==
    [req_id |-> 0, tag |-> 0, first_dw_be |-> 0, last_dw_be |-> 0,
     dest_id |-> 0, ext_reg_num |-> 0, reg_num |-> 0]

\* fill_cxl_io_cfg_req_packet storing the destination id in host byte order
fill_cfg_req_HostOrder(header, id, cfg_addr, size, req_id, tag) ==
    LET size8 == size % 256
        offset == cfg_addr % 4
    IN  IF cfg_addr > 4095 THEN [ok |-> FALSE, header |-> header]
        ELSE IF offset + size8 > 4 THEN [ok |-> FALSE, header |-> header]
        ELSE [ok |-> TRUE,
              header |-> [req_id |-> htons(req_id), tag |-> tag,
                          first_dw_be |-> ByteEnable(offset, size8),
                          last_dw_be |-> 0,
                          dest_id |-> id,
                          ext_reg_num |-> (cfg_addr \div 256) % 16,
                          reg_num |-> (cfg_addr \div 4) % 64]]

\* fill_cxl_io_cfg_req_packet: the value returned and the header afterwards;
\* size arrives as a uint8_t
fill_cxl_io_cfg_req_packet(header, id, cfg_addr, size, req_id, tag) ==
    LET size8 == size % 256
        offset == cfg_addr % 4
    IN  IF cfg_addr > 4095 THEN [ok |-> FALSE, header |-> header]
        ELSE IF offset + size8 > 4 THEN [ok |-> FALSE, header |-> header]
        ELSE [ok |-> TRUE,
              header |-> [req_id |-> htons(req_id), tag |-> tag,
                          first_dw_be |-> ByteEnable(offset, size8),
                          last_dw_be |-> 0,
                          dest_id |-> htons(id),
                          ext_reg_num |-> (cfg_addr \div 256) % 16,
                          reg_num |-> (cfg_addr \div 4) % 64]]

send_cxl_io_config_space_read(bdf, offset, size, type0, tag) ==
    Writes(SIZEOF_cxl_io_cfg_rd_packet_t,
        [system_header |-> [payload_type |-> CXL_IO,
                            payload_length |-> SIZEOF_cxl_io_cfg_rd_packet_t],
         cxl_io_header |-> [fmt_type |-> IF type0 THEN "CFG_RD0"
                                         ELSE "CFG_RD1",
                            length_upper |-> 0, length_lower |-> 1],
         cfg_req_header |->
             fill_cxl_io_cfg_req_packet(ZeroCfgReqHeader, bdf, offset, size,
                                        0, tag).header])

send_cxl_io_config_space_write(bdf, offset, val, size, type0, tag) ==
    Writes(SIZEOF_cxl_io_cfg_wr_packet_t,
        [system_header |-> [payload_type |-> CXL_IO,
                            payload_length |-> SIZEOF_cxl_io_cfg_wr_packet_t],
         cxl_io_header |-> [fmt_type |-> IF type0 THEN "CFG_WR0"
                                         ELSE "CFG_WR1",
                            length_upper |-> 0, length_lower |-> 1],
         cfg_req_header |->
             fill_cxl_io_cfg_req_packet(ZeroCfgReqHeader, bdf, offset, size,
                                        0, tag).header,
         value |-> val])

\* the other packets of hw/cxl/cxl_emulator_packet.h
SIZEOF_sideband_connection_request_packet_t == 7
SIZEOF_cxl_mem_m2s_req_packet_t == 16
SIZEOF_cxl_mem_m2s_rwd_headers == 16
CXL_MEM_ACCESS_UNIT == 64
SIZEOF_cxl_mem_m2s_rwd_packet_t ==
    SIZEOF_cxl_mem_m2s_rwd_headers + CXL_MEM_ACCESS_UNIT
SIZEOF_cxl_io_mem_rd_packet_t == 18

send_sideband_connection_request_BaseSize(port) ==
    Writes(SIZEOF_sideband_connection_request_packet_t,
        [system_header |->
             [payload_type |-> SIDEBAND,
              payload_length |-> SIZEOF_base_sideband_packet_t],
         sideband_header |-> [type |-> "SIDEBAND_CONNECTION_REQUEST"],
         port |-> port])

send_sideband_connection_request(port) ==
    Writes(SIZEOF_sideband_connection_request_packet_t,
        [system_header |->
             [payload_type |-> SIDEBAND,
              payload_length |-> SIZEOF_sideband_connection_request_packet_t],
         sideband_header |-> [type |-> "SIDEBAND_CONNECTION_REQUEST"],
         port |-> port])

\* the address rounded down to its 64-byte unit, not divided by it
ShiftRight6_Aligned(hpa) ==
    [i \in 1..8 |-> IF i = 1 THEN hpa[1] - (hpa[1] % 64) ELSE hpa[i]]

\* hpa >> 6 on a 64-bit value
ShiftRight6(hpa) ==
    [i \in 1..8 |->
        (hpa[i] \div 64) + (IF i < 8 THEN (hpa[i + 1] % 64) * 4 ELSE 0)]

send_cxl_mem_mem_write(hpa, bytes, tag) ==
    Writes(SIZEOF_cxl_mem_m2s_rwd_packet_t,
        [system_header |->
             [payload_type |-> CXL_MEM,
              payload_length |-> SIZEOF_cxl_mem_m2s_rwd_packet_t],
         cxl_mem_header |-> [cxl_mem_channel_t |-> "M2S_RWD"],
         m2s_rwd_header |-> [mem_opcode |-> "MEM_WR",
                             addr |-> ShiftRight6(hpa)],
         data |-> SubSeq(bytes, 1, CXL_MEM_ACCESS_UNIT)])

send_cxl_mem_mem_read(hpa, tag) ==
    Writes(SIZEOF_cxl_mem_m2s_req_packet_t,
        [system_header |->
             [payload_type |-> CXL_MEM,
              payload_length |-> SIZEOF_cxl_mem_m2s_req_packet_t],
         cxl_mem_header |-> [cxl_mem_channel_t |-> "M2S_REQ"],
         m2s_req_header |-> [mem_opcode |-> "MEM_RD",
                             addr |-> ShiftRight6(hpa)]])

send_cxl_io_mem_read(hpa, size, tag) ==
    LET hdr_length == round_up_to_nearest_dword(size) \div 4
    IN  IF size % 4 # 0 THEN Asserts(315)
        ELSE Writes(SIZEOF_cxl_io_mem_rd_packet_t,
               [system_header |->
                    [payload_type |-> CXL_IO,
                     payload_length |-> SIZEOF_cxl_io_mem_rd_packet_t],
                cxl_io_header |->
                    [fmt_type |-> IF size = 4 THEN "MRD_32B" ELSE "MRD_64B",
                     length_upper |-> EXTRACT_UPPER_2(hdr_length),
                     length_lower |-> EXTRACT_LOWER_8(hdr_length)],
                mreq_header |-> mreq_header(hpa, tag)])

\* ------------------------------------------------------------ send: actions
Addresses ==
    {<<0, 0, 0, 0, 0, 0, 0, 0>>, <<64, 0, 0, 0, 0, 0, 0, 0>>,
     <<252, 16, 32, 48, 64, 80, 96, 112>>,
     <<3, 0, 0, 0, 0, 0, 0, 0>>, <<4, 0, 0, 0, 0, 0, 0, 0>>,
     <<0, 1, 0, 0, 0, 0, 0, 0>>, <<0, 0, 0, 0, 0, 0, 0, 128>>}
MemAddresses ==
    Addresses \cup {<<63, 0, 0, 0, 0, 0, 0, 0>>, <<127, 0, 0, 0, 0, 0, 0, 0>>,
                    <<192, 255, 255, 255, 255, 255, 255, 255>>,
                    AllOnes64}
DataBlocks ==
    {Fill(0, CXL_MEM_ACCESS_UNIT, 11), Fill(0, 2 * CXL_MEM_ACCESS_UNIT, 12)}
Ports == {0, 8000, 65535}
Values64 ==
    {<<0, 0, 0, 0, 0, 0, 0, 0>>, <<120, 86, 52, 18, 0, 0, 0, 0>>,
     <<254, 255, 255, 255, 0, 0, 0, 0>>, Max32As64,
     <<0, 0, 0, 0, 1, 0, 0, 0>>, <<136, 119, 102, 85, 68, 51, 34, 17>>,
     <<254, 255, 255, 255, 255, 255, 255, 255>>, AllOnes64}
MemSizes == {0, 1, 2, 4, 6, 8, 12, 16}
MemReadSizes == MemSizes \cup {1020, 1024, 2048, 4092}
CfgOffsets == {0, 1, 2, 3, 4, 6, 255, 256, 4092, 4095, 4096, 4100, 65536}
CfgSizes == {1, 2, 3, 4}
Bdfs == {0, 264}
Values32 == {Zero32, <<120, 86, 52, 18>>, AllOnes32}

\* write(socket_fd, &packet, len): -1, or the number of bytes accepted
WriteResults(len) == {-1, len, len - 1}

\* a send function runs from entry to return
Send(name, args, out) ==
    /\ pc = "idle"
    /\ UNCHANGED host_vars
    /\ exchange.req < MaxRequests
    /\ op' = [name |-> name, tag |-> 0, data_null |-> TRUE, args |-> args]
    /\ tag_out' = IF name = "send_sideband_connection_request"
                  THEN tag_out ELSE get_next_tag
    /\ IF out.assert # 0
       THEN /\ pc' = "abort"
            /\ ret' = [type |-> "assert", bytes |-> <<>>, n |-> out.assert]
            /\ sent' = NoSent
            /\ exchange' = exchange
       ELSE \E w \in WriteResults(out.len) :
              /\ pc' = "done"
              /\ sent' = [called |-> TRUE, len |-> IF w = -1 THEN 0 ELSE w,
                          asked |-> out.len, pkt |-> out.pkt]
              /\ ret' = Bool(w # -1)
              /\ exchange' = IF w = out.len
                             THEN [exchange EXCEPT !.req = exchange.req + 1]
                             ELSE exchange
    /\ UNCHANGED <<packet_entries, stream, data, recv_locals, net_left, oob,
                   fail_cause, nrecv, consumed, entries_before,
                   stream_before, last_view, syscalls>>

Call_send_cxl_io_mem_write ==
    \E hpa \in Addresses, val \in Values64, size \in MemSizes :
        Send("send_cxl_io_mem_write",
             [hpa |-> hpa, val |-> val, size |-> size],
             send_cxl_io_mem_write(hpa, val, size, get_next_tag))

Call_send_sideband_connection_request ==
    \E port \in Ports :
        Send("send_sideband_connection_request", [port |-> port],
             send_sideband_connection_request(port))

Call_send_cxl_mem_mem_write ==
    \E hpa \in MemAddresses, bytes \in DataBlocks :
        Send("send_cxl_mem_mem_write", [hpa |-> hpa, data |-> bytes],
             send_cxl_mem_mem_write(hpa, bytes, get_next_tag))

Call_send_cxl_mem_mem_read ==
    \E hpa \in MemAddresses :
        Send("send_cxl_mem_mem_read", [hpa |-> hpa],
             send_cxl_mem_mem_read(hpa, get_next_tag))

Call_send_cxl_io_mem_read ==
    \E hpa \in Addresses, size \in MemReadSizes :
        Send("send_cxl_io_mem_read", [hpa |-> hpa, size |-> size],
             send_cxl_io_mem_read(hpa, size, get_next_tag))

Call_send_cxl_io_config_space_read ==
    \E bdf \in Bdfs, offset \in CfgOffsets, size \in CfgSizes,
       type0 \in BOOLEAN :
        Send("send_cxl_io_config_space_read",
             [bdf |-> bdf, offset |-> offset, size |-> size,
              type0 |-> type0],
             send_cxl_io_config_space_read(bdf, offset, size, type0,
                                           get_next_tag))

Call_send_cxl_io_config_space_write ==
    \E bdf \in Bdfs, offset \in CfgOffsets, val \in Values32,
       size \in CfgSizes, type0 \in BOOLEAN :
        Send("send_cxl_io_config_space_write",
             [bdf |-> bdf, offset |-> offset, val |-> val, size |-> size,
              type0 |-> type0],
             send_cxl_io_config_space_write(bdf, offset, val, size, type0,
                                            get_next_tag))

\* the transaction correlator: every wait, the catalog calls, and a peer
\* that answers with well-formed responses
\* ---------------------------------------------------------------- connect
Int32(n) == [type |-> "int", bytes |-> <<>>, n |-> n]

\* what the system calls of create_socket_client may answer
SocketEnvs ==
    [socket : {-1, 0, 3}, inet_pton : {1, 0, -1},
     gethostbyname : {NULL, 1}, connect : {0, -1}, setsockopt : {0, -1}]

\* a client that goes on after a refused connection
create_socket_client_IgnoreConnect(env) ==
    [ret |-> env.socket, calls |-> <<"socket", "inet_pton", "connect">>]

\* create_socket_client: its result and the system calls it makes, in order
create_socket_client(env) ==
    LET resolve == <<"socket", "inet_pton">>
                   \o (IF env.inet_pton <= 0
                       THEN <<"gethostbyname">> ELSE <<>>)
    IN  IF env.socket = -1
        THEN [ret |-> -1, calls |-> <<"socket">>]
        ELSE IF env.inet_pton <= 0 /\ env.gethostbyname = NULL
        THEN [ret |-> -1, calls |-> resolve]
        ELSE IF env.connect = -1
        THEN [ret |-> -1, calls |-> resolve \o <<"connect">>]
        ELSE [ret |-> env.socket,
              calls |-> resolve \o <<"connect", "setsockopt", "setsockopt">>]

Call_create_socket_client ==
    /\ pc = "idle"
    /\ UNCHANGED host_vars
    /\ \E env \in SocketEnvs :
         LET r == create_socket_client(env)
         IN  /\ op' = [name |-> "create_socket_client", tag |-> 0,
                       data_null |-> TRUE, args |-> env]
             /\ ret' = Int32(r.ret)
             /\ syscalls' = r.calls
    /\ pc' = "done"
    /\ UNCHANGED <<packet_entries, stream, data, recv_locals, net_left, oob,
                   fail_cause, nrecv, consumed, entries_before,
                   stream_before, last_view, sent, tag_out, exchange>>

\* ----------------------------------------------- fixed memory windows
\* most windows the machine is configured with
MaxWindows == 2

MiB == 1024 * 1024

\* cxl_interleave_ways_enc: the encoding of an interleave over `iw` targets,
\* or an error
WaysEncodings ==
    (1 :> 0) @@ (2 :> 1) @@ (4 :> 2) @@ (8 :> 3) @@ (16 :> 4)
    @@ (3 :> 8) @@ (6 :> 9) @@ (12 :> 10)

cxl_interleave_ways_enc(iw) ==
    IF iw \in DOMAIN WaysEncodings
    THEN [enc |-> WaysEncodings[iw], err |-> NoErr]
    ELSE [enc |-> 0, err |-> "Interleave ways not supported"]

\* cxl_interleave_granularity_enc: the encoding of a granularity in bytes,
\* or an error
GranularityEncodings ==
    (256 :> 0) @@ (512 :> 1) @@ (1024 :> 2) @@ (2048 :> 3) @@ (4096 :> 4)
    @@ (8192 :> 5) @@ (16384 :> 6)

cxl_interleave_granularity_enc(gran) ==
    IF gran \in DOMAIN GranularityEncodings
    THEN [enc |-> GranularityEncodings[gran], err |-> NoErr]
    ELSE [enc |-> 0, err |-> "Interleave granularity invalid"]

\* a configuration that appends the window before its granularity is
\* validated
cxl_fixed_memory_window_config_Early(windows, object, err) ==
    LET ways == cxl_interleave_ways_enc(Len(object.targets))
        gran == IF object.has_interleave_granularity
                THEN cxl_interleave_granularity_enc(
                         object.interleave_granularity)
                ELSE [enc |-> 0, err |-> NoErr]
        fw == [num_targets |-> Len(object.targets),
               enc_int_ways |-> ways.enc, targets |-> object.targets,
               size |-> object.size, enc_int_gran |-> gran.enc]
    IN  IF ways.err # NoErr \/ err # NoErr
        THEN [fixed_windows |-> windows,
              abort |-> ways.err # NoErr /\ err # NoErr,
              errp |-> IF err # NoErr THEN err ELSE ways.err]
        ELSE IF object.size % (256 * MiB) # 0
        THEN [fixed_windows |-> windows, abort |-> FALSE,
              errp |-> "Size must be a multiple of 256MiB"]
        ELSE [fixed_windows |-> Append(windows, fw), abort |-> FALSE,
              errp |-> gran.err]

\* cxl_fixed_memory_window_config: the list of windows and *errp it leaves,
\* given the list, the options of one window and *errp as the caller's loop
\* hands it on; abort: error_setg() was reached with *errp already set
cxl_fixed_memory_window_config(windows, object, err) ==
    LET ways == cxl_interleave_ways_enc(Len(object.targets))
        gran == IF object.has_interleave_granularity
                THEN cxl_interleave_granularity_enc(
                         object.interleave_granularity)
                ELSE [enc |-> 0, err |-> NoErr]
        fw == [num_targets |-> Len(object.targets),
               enc_int_ways |-> ways.enc, targets |-> object.targets,
               size |-> object.size, enc_int_gran |-> gran.enc]
        Failed(e, a) == [fixed_windows |-> windows, errp |-> e, abort |-> a]
    IN  IF ways.err # NoErr /\ err # NoErr THEN Failed(err, TRUE)
        ELSE IF ways.err # NoErr THEN Failed(ways.err, FALSE)
        ELSE IF err # NoErr THEN Failed(err, FALSE)
        ELSE IF object.size % (256 * MiB) # 0
        THEN Failed("Size must be a multiple of 256MiB", FALSE)
        ELSE IF gran.err # NoErr THEN Failed(gran.err, FALSE)
        ELSE [fixed_windows |-> Append(windows, fw), errp |-> err,
              abort |-> FALSE]

\* the options of a window as the command line gives them
WindowOptions ==
    {o \in [targets : {<<>>, <<"cxl.0">>, <<"cxl.0", "cxl.1">>,
                       <<"cxl.0", "cxl.1", "cxl.2", "cxl.3", "cxl.4">>},
            size : {0, 100 * MiB, 256 * MiB},
            has_interleave_granularity : BOOLEAN,
            interleave_granularity : {0, 256, 1024, 300}] :
        ~o.has_interleave_granularity => o.interleave_granularity = 0}

Call_cxl_fixed_memory_window_config ==
    /\ pc = "idle"
    /\ Len(fixed_windows) < MaxWindows
    /\ \E object \in WindowOptions :
         LET r == cxl_fixed_memory_window_config(fixed_windows, object, errp)
         IN  /\ fixed_windows' = r.fixed_windows
             /\ errp' = r.errp
             /\ pc' = IF r.abort THEN "abort" ELSE "done"
             /\ ret' = IF r.abort
                       THEN [type |-> "assert", bytes |-> <<>>, n |-> 40]
                       ELSE Void
             /\ op' = [name |-> "cxl_fixed_memory_window_config",
                       tag |-> 0, data_null |-> TRUE, args |-> object]
    /\ UNCHANGED <<packet_entries, stream, data, recv_locals, net_left, oob,
                   fail_cause, nrecv, consumed, entries_before,
                   stream_before, last_view, sent, tag_out, syscalls,
                   exchange, forwarded>>

\* what cxl_cfmws_find_device meets on its way from the window to a device:
\* a usable CXL host bridge, passthrough or a component state with a
\* committed HDM decoder, a root port, remote or with a device below it
Topology(hb, pt, cs, cm, rp, rem, dev) ==
    [hb |-> hb, passthrough |-> pt, cstate |-> cs, committed |-> cm,
     rp |-> rp, remote |-> rem, dev |-> dev]

DeviceTypes == {"cxl-type1", "cxl-type2", "cxl-type3"}

Topologies ==
    {Topology(FALSE, FALSE, FALSE, FALSE, FALSE, FALSE, "NULL"),
     Topology(TRUE, TRUE, FALSE, FALSE, FALSE, FALSE, "NULL")}
    \cup {Topology(TRUE, FALSE, cs, cm, rp, FALSE, "NULL") :
             cs \in BOOLEAN, cm \in BOOLEAN, rp \in BOOLEAN}
    \cup {Topology(TRUE, pt, TRUE, TRUE, TRUE, rem, dev) :
             pt \in BOOLEAN, rem \in BOOLEAN,
             dev \in DeviceTypes \cup {"NULL", "e1000"}}

\* PCIDevice *: no device, a remote root port, or a device with its type
NoDevice == [remote |-> FALSE, type |-> "NULL"]

cxl_cfmws_find_device(env) ==
    IF ~env.hb THEN NoDevice
    ELSE IF env.passthrough /\ ~env.rp THEN NoDevice
    ELSE IF ~env.passthrough /\ ~env.cstate THEN NoDevice
    ELSE IF ~env.passthrough /\ ~env.committed THEN NoDevice
    ELSE IF ~env.passthrough /\ ~env.rp THEN NoDevice
    ELSE IF env.remote THEN [remote |-> TRUE, type |-> "root-port"]
    ELSE IF env.dev \in DeviceTypes THEN [remote |-> FALSE, type |-> env.dev]
    ELSE NoDevice

MemTx(result) == [type |-> result, bytes |-> <<>>, n |-> 0]

Zero64 == ZeroExtend64(Zero32)

\* the call an access is forwarded with
Forward(fn, at) ==
    <<[fn |-> fn, addr |-> at.addr + at.base, size |-> at.size]>>

\* a read that leaves *data alone when it finds no device
cxl_read_cfmws_KeepData(env, at, data0, dev) ==
    [result |-> "MEMTX_ERROR", data |-> data0, calls |-> <<>>]

\* cxl_read_cfmws: its result, *data and the call it forwards the read with;
\* dev is what the device or the remote end answers
cxl_read_cfmws(env, at, data0, dev) ==
    LET d == cxl_cfmws_find_device(env)
        Via(fn) == [result |-> dev.result, data |-> dev.data,
                    calls |-> Forward(fn, at)]
    IN  IF d = NoDevice
        THEN [result |-> "MEMTX_ERROR", data |-> Zero64, calls |-> <<>>]
        ELSE IF d.remote THEN Via("cxl_remote_cxl_mem_read_with_cache")
        ELSE IF d.type = "cxl-type1" THEN Via("cxl_type1_read")
        ELSE IF d.type = "cxl-type2" THEN Via("cxl_host_type2_hcoh_read")
        ELSE IF d.type = "cxl-type3" THEN Via("cxl_type3_read")
        ELSE [result |-> "MEMTX_ERROR", data |-> data0, calls |-> <<>>]

\* cxl_write_cfmws: its result and the call it forwards the write with
cxl_write_cfmws(env, at, dev) ==
    LET d == cxl_cfmws_find_device(env)
        Via(fn) == [result |-> dev.result, calls |-> Forward(fn, at)]
    IN  IF d = NoDevice THEN [result |-> "MEMTX_OK", calls |-> <<>>]
        ELSE IF d.remote THEN Via("cxl_remote_cxl_mem_write_with_cache")
        ELSE IF d.type = "cxl-type1" THEN Via("cxl_type1_write")
        ELSE IF d.type = "cxl-type2" THEN Via("cxl_host_type2_hcoh_write")
        ELSE IF d.type = "cxl-type3" THEN Via("cxl_type3_write")
        ELSE [result |-> "MEMTX_OK", calls |-> <<>>]

\* accesses to a window: offset into the window, base of the window, size
Accesses == [addr : {0, 64}, base : {0, 4096}, size : {1, 8}]

\* what a device or the remote end answers to a forwarded access
DeviceAnswers ==
    [result : {"MEMTX_OK", "MEMTX_ERROR"}, data : Data64 \cup {Zero64}]

\* an access to a window goes to the window it was registered with
Call_cxl_read_cfmws ==
    /\ pc = "idle"
    /\ Len(fixed_windows) > 0
    /\ errp = NoErr
    /\ \E env \in Topologies, at \in Accesses, dev \in DeviceAnswers :
         LET r == cxl_read_cfmws(env, at, AllOnes64, dev)
         IN  /\ op' = [name |-> "cxl_read_cfmws", tag |-> 0,
                       data_null |-> FALSE,
                       args |-> [env |-> env, at |-> at]]
             /\ ret' = MemTx(r.result)
             /\ data' = r.data
             /\ forwarded' = r.calls
    /\ pc' = "done"
    /\ UNCHANGED <<packet_entries, stream, recv_locals, net_left, oob,
                   fail_cause, nrecv, consumed, entries_before,
                   stream_before, last_view, sent, tag_out, syscalls,
                   exchange, fixed_windows, errp>>

Call_cxl_write_cfmws ==
    /\ pc = "idle"
    /\ Len(fixed_windows) > 0
    /\ errp = NoErr
    /\ \E env \in Topologies, at \in Accesses, dev \in DeviceAnswers :
         LET r == cxl_write_cfmws(env, at, dev)
         IN  /\ op' = [name |-> "cxl_write_cfmws", tag |-> 0,
                       data_null |-> FALSE,
                       args |-> [env |-> env, at |-> at]]
             /\ ret' = MemTx(r.result)
             /\ forwarded' = r.calls
    /\ pc' = "done"
    /\ UNCHANGED <<packet_entries, stream, data, recv_locals, net_left, oob,
                   fail_cause, nrecv, consumed, entries_before,
                   stream_before, last_view, sent, tag_out, syscalls,
                   exchange, fixed_windows, errp>>

\* the CXL host: windows are configured, then accessed
InitHost == Start /\ stream = <<>>

NextHost ==
    \/ Call_cxl_fixed_memory_window_config
    \/ Call_cxl_read_cfmws
    \/ Call_cxl_write_cfmws
    \/ ReturnToCaller

SpecHost == InitHost /\ [][NextHost]_vars

Next ==
    \/ CallWait
    \/ WaitLoop
    \/ wait_for_payload
    \/ process_incoming_packets
    \/ Call_release_packet_entry
    \/ Call_get_packet_entry
    \/ ReturnToCaller

Spec == Init /\ [][Next]_vars

\* the framing reader: a caller waiting for completions, and a peer that
\* sends packets at the limits of the framing
NextFraming ==
    \/ CallWaitFraming
    \/ WaitLoop
    \/ wait_for_payload
    \/ process_incoming_packets
    \/ Call_release_packet_entry
    \/ ReturnToCaller

SpecFraming == InitFraming /\ [][NextFraming]_vars

\* a connection in use: requests are sent, responses awaited and released
NextSession ==
    \/ Call_send_sideband_connection_request
    \/ Call_send_cxl_mem_mem_read
    \/ Next

SpecSession == Init /\ [][NextSession]_vars

\* the peer's answer to the k-th read request: a data response whose bytes
\* tell which request it answers
Response(k) ==
    MkPacket(CXL_MEM, SIZEOF_cxl_mem_s2m_drs_packet_t,
             Fill(HDR, SIZEOF_cxl_mem_s2m_drs_packet_t - HDR, k))

\* the answers to the first n requests, in the order of the requests
RECURSIVE Responses(_)
Responses(n) == IF n = 0 THEN <<>> ELSE Responses(n - 1) \o Response(n)

\* a caller that sends one read request at a time: it sends the next one
\* when it has waited for the last and the catalog slot is free again
Exchange_Request ==
    /\ exchange.waited = exchange.req
    /\ Entry(packet_entries, get_next_tag).packet_size = 0
    /\ Call_send_cxl_mem_mem_read

\* ... and waits for the response to the request it sent
Exchange_Await ==
    /\ exchange.waited < exchange.req
    /\ StartWait("wait_for_cxl_mem_mem_data", get_next_tag, TRUE, <<>>)

InitExchange == Start /\ stream = Responses(MaxRequests)

NextExchange ==
    \/ Exchange_Request
    \/ Exchange_Await
    \/ WaitLoop
    \/ wait_for_payload
    \/ process_incoming_packets
    \/ Call_release_packet_entry
    \/ ReturnToCaller

SpecExchange == InitExchange /\ [][NextExchange]_vars

\* the receive path with a thread that keeps running its read loop, each
\* read() returning within the receive timeout
SpecDeadline ==
    InitFraming /\ [][NextFraming]_vars /\ WF_vars(wait_for_payload)

\* the receive path run by a thread that is never suspended for ever: a
\* wait in progress goes on to its next step
SpecWaiting ==
    /\ InitFraming
    /\ [][NextFraming]_vars
    /\ WF_vars(WaitLoop \/ wait_for_payload \/ process_incoming_packets)

\* the packet encoder: a caller that only sends, over a socket that accepts
\* all, part or none of each packet
InitSend == Start /\ stream = <<>>

NextSend ==
    \/ Call_create_socket_client
    \/ Call_send_sideband_connection_request
    \/ Call_send_cxl_mem_mem_write
    \/ Call_send_cxl_mem_mem_read
    \/ Call_send_cxl_io_mem_read
    \/ Call_send_cxl_io_mem_write
    \/ Call_send_cxl_io_config_space_read
    \/ Call_send_cxl_io_config_space_write
    \/ ReturnToCaller

SpecSend == InitSend /\ [][NextSend]_vars

\* -------------------------------------------------------------- properties
Populated(e) == e.packet_size # 0

\* the receive in progress has both phases read and is about to store
ReceiveCompletes ==
    pc = "payload" /\ total_bytes_read >= payload_size

\* C1: a populated catalog entry is never overwritten.  A receive that
\* completes while slot 0 is populated ends in the assertion fault of line
\* 156 and leaves the whole catalog as it was; a populated entry changes in
\* no step other than a release_packet_entry of its tag, which keeps its
\* bytes and sets its length to 0.
C1_PopulatedNeverOverwritten ==
    [][/\ (ReceiveCompletes /\ Populated(Entry(packet_entries, 0)))
           => /\ pc' = "abort"
              /\ ret'.type = "assert" /\ ret'.n = 156
              /\ packet_entries' = packet_entries
       /\ \A t \in DOMAIN packet_entries :
            (Populated(packet_entries[t])
               /\ Entry(packet_entries', t) # packet_entries[t])
            => /\ op'.name = "release_packet_entry" /\ op'.tag = t
               /\ Entry(packet_entries', t) =
                    [packet_entries[t] EXCEPT !.packet_size = 0]]_vars

\* C1 witness: a receive completed against a populated slot 0 and was stopped
\* by the assertion, the slot still holding the earlier packet
C1_Witness ==
    /\ pc = "abort"
    /\ ret.n = 156
    /\ consumed > 0
    /\ Populated(Entry(packet_entries, 0))
    /\ EntryBytes(Entry(packet_entries, 0), HDR) # SubSeq(buffer, 1, HDR)

\* sizes a wait accepts for its kind
ExpectedSizes(name, data_null) ==
    CASE name = "wait_for_base_sideband_packet" ->
             {SIZEOF_base_sideband_packet_t}
      [] name = "wait_for_cxl_mem_completion" ->
             {SIZEOF_cxl_mem_s2m_ndr_packet_t}
      [] name = "wait_for_cxl_mem_mem_data" ->
             {SIZEOF_cxl_mem_s2m_drs_packet_t}
      [] name = "wait_for_cxl_io_completion" ->
             {SIZEOF_cxl_io_completion_packet_t}
      [] name = "wait_for_cxl_io_completion_data" ->
             {SIZEOF_cxl_io_completion_data_packet_32b_t,
              SIZEOF_cxl_io_completion_data_packet_64b_t}
      [] name = "wait_for_cxl_io_cfg_completion" ->
             IF data_null
             THEN {SIZEOF_cxl_io_completion_packet_t}
             ELSE {SIZEOF_cxl_io_completion_packet_t,
                   SIZEOF_cxl_io_completion_data_packet_32b_t}

\* the awaited entry is populated with a length the wait's kind does not
\* accept
Mismatched(o, entries) ==
    /\ o.name \in WaitNames
    /\ o.tag < MAX_TAG
    /\ Populated(Entry(entries, o.tag))
    /\ Entry(entries, o.tag).packet_size
           \notin ExpectedSizes(o.name, o.data_null)

\* C2: whenever the awaited tag's entry is populated with a length other than
\* the one expected for the wait's kind, the wait ends in an assertion fault:
\* it never returns to its caller, neither with a failure result nor with a
\* packet.
C2_MismatchIsFatal ==
    ~(pc = "done" /\ Mismatched(op, packet_entries))
CfgSends ==
    {"send_cxl_io_config_space_read", "send_cxl_io_config_space_write"}

\* a configuration request outside the 4096-byte space or across a dword
InvalidCfgRequest(args) ==
    args.offset > 4095 \/ (args.offset % 4) + args.size > 4

\* C3: send_cxl_io_config_space_read and send_cxl_io_config_space_write,
\* called with an offset above 0xFFF or with (offset & 3) + size > 4, write
\* no bytes to the connection and return failure.
C3_InvalidCfgRequestRejected ==
    (pc = "done" /\ op.name \in CfgSends /\ InvalidCfgRequest(op.args))
    => /\ sent.len = 0
       /\ ret = Bool(FALSE)

\* C4: for every declared length above MAX_PAYLOAD_SIZE and every split of
\* the peer's bytes into reads, the receive fails, and no read stores a byte
\* at index 512 or beyond of the 512-byte buffer.
C4_OversizeFailsInsideBuffer ==
    /\ oob = 0
    /\ pc # "crash"
    /\ (nrecv > 0 /\ pc # "hdr" /\ Len(buffer) >= HDR
          /\ payload_length(buffer) > MAX_PAYLOAD_SIZE)
       => \/ pc = "payload" /\ ~ReceiveCompletes
          \/ pc = "done" /\ fail_cause # "none"
\* the awaited entry holds a packet of a size the wait's kind accepts
Matched(o, entries) ==
    /\ o.name \in WaitNames
    /\ o.tag < MAX_TAG
    /\ Entry(entries, o.tag).packet_size
           \in ExpectedSizes(o.name, o.data_null)

\* what the caller of a wait gets from a matching entry: the entry's bytes
\* for the four waits that return a packet; the entry's length and its data
\* field for the completion-with-data wait; the data field (all ones for a
\* completion without data) for the cfg wait
ExpectedView(o, e, d) ==
    CASE o.name = "wait_for_cxl_io_completion_data" ->
             [ret |-> [type |-> "size", bytes |-> <<>>, n |-> e.packet_size],
              data |-> IF e.packet_size
                            = SIZEOF_cxl_io_completion_data_packet_32b_t
                       THEN SubSeq(e.packet, CPL + 1, CPL + 4) \o Zero32
                       ELSE SubSeq(e.packet, CPL + 1, CPL + 8)]
      [] o.name = "wait_for_cxl_io_cfg_completion" ->
             [ret |-> [type |-> "void", bytes |-> <<>>, n |-> 0],
              data |-> IF o.data_null THEN d
                       ELSE IF e.packet_size
                                 = SIZEOF_cxl_io_completion_packet_t
                       THEN AllOnes32
                       ELSE SubSeq(e.packet, CPL + 1, CPL + 4)]
      [] OTHER ->
             [ret |-> [type |-> "packet",
                       bytes |-> SubSeq(e.packet, 1, e.packet_size),
                       n |-> e.packet_size],
              data |-> d]

\* C5: a wait that finds the awaited entry populated with exactly the
\* expected size returns that entry's bytes in the same step, reads nothing
\* from the connection and leaves the catalog unchanged; a second wait of the
\* same kind on the same tag right after it returns the same result again;
\* and an entry's length goes from non-zero to zero only in a
\* release_packet_entry of its tag.
C5_FastPathLeavesCatalog ==
    /\ [][(pc = "wait_loop" /\ Matched(op, packet_entries))
          => /\ pc' = "done"
             /\ LET v == ExpectedView(op, Entry(packet_entries, op.tag), data)
                IN  ret' = v.ret /\ data' = v.data
             /\ packet_entries' = packet_entries
             /\ stream' = stream
             /\ nrecv' = nrecv]_vars
    /\ [](( /\ pc \notin {"idle", "wait_loop"}
            /\ last_view.name = op.name
            /\ last_view.tag = op.tag
            /\ last_view.data_null = op.data_null
            /\ last_view.name \in WaitNames)
          => /\ pc = "done"
             /\ ret = last_view.ret
             /\ data = last_view.data
             /\ nrecv = 0
             /\ packet_entries = entries_before)
    /\ [][\A t \in DOMAIN packet_entries :
            (Populated(packet_entries[t])
               /\ ~Populated(Entry(packet_entries', t)))
            => op'.name = "release_packet_entry" /\ op'.tag = t]_vars

\* C5 witness: a wait returned the packet its predecessor returned, without
\* a receive, the stream still holding bytes
C5_Witness ==
    /\ pc = "done"
    /\ op.name \in WaitNames
    /\ last_view.name = op.name
    /\ last_view.tag = op.tag
    /\ last_view.data_null = op.data_null
    /\ ret = last_view.ret
    /\ ret.type = "packet"
    /\ nrecv = 0
    /\ Len(stream) > 0
\* what each wait returns when its receive failed: a null pointer, a length
\* of 0, or (the cfg wait, which is void) nothing
FailureResult(name) ==
    CASE name = "wait_for_cxl_io_cfg_completion" ->
             [type |-> "void", bytes |-> <<>>, n |-> 0]
      [] name = "wait_for_cxl_io_completion_data" ->
             [type |-> "size", bytes |-> <<>>, n |-> 0]
      [] OTHER -> [type |-> "NULL", bytes |-> <<>>, n |-> 0]

\* C6: when the receive inside a wait fails (a read returning zero or less,
\* the deadline, or the overflow guard), the wait returns in that same step
\* with its failure value: no further receive is started, the caller's data
\* is not written, and the catalog is what it was before the failed receive.
C6_FailedReceiveEndsWait ==
    [][/\ (fail_cause = "none" /\ fail_cause' # "none")
          => /\ pc' = "done"
             /\ op' = op
             /\ ret' = FailureResult(op.name)
             /\ data' = data
             /\ nrecv' = nrecv
             /\ packet_entries' = entries_before
       /\ fail_cause # "none"
          => /\ pc = "done"
             /\ pc' = "idle"
             /\ packet_entries' = packet_entries
             /\ stream' = stream]_vars

\* C6 witness: the second receive of a wait failed on the overflow guard and
\* the wait returned, the packet stored by the first receive still in place
C6_Witness ==
    /\ pc = "done"
    /\ fail_cause = "overflow"
    /\ nrecv = 2
    /\ ret = FailureResult(op.name)
    /\ Populated(Entry(packet_entries, 0))
    /\ packet_entries = entries_before

\* a result a successful wait of this kind can hand back
SuccessOutcome(o, r) ==
    CASE o.name = "wait_for_cxl_io_cfg_completion" -> r.type = "void"
      [] o.name = "wait_for_cxl_io_completion_data" ->
             r.type = "size" /\ r.n > 0
      [] OTHER -> r.type = "packet"

\* C7: every failure of a wait is observable by its caller: what a failed
\* wait hands back is something no successful wait of that kind hands back.
C7_FailureObservable ==
    (pc = "done" /\ op.name \in WaitNames /\ fail_cause # "none")
    => ~SuccessOutcome(op, ret)

\* the tags whose entries differ from the all-zero entry now or before
TouchedTags == DOMAIN packet_entries \cup DOMAIN entries_before

\* C8: release_packet_entry(tag) with tag >= MAX_TAG returns false and
\* changes no entry; with tag < MAX_TAG it returns true, sets only that
\* entry's length to 0 and leaves every other entry as it was, so that
\* get_packet_entry(tag) then shows an entry of length 0; get_packet_entry
\* with tag >= MAX_TAG returns NULL, otherwise the entry of that tag, and
\* never changes the catalog.
C8_ReleaseAndGet ==
    /\ (pc = "done" /\ op.name = "release_packet_entry")
       => IF op.tag >= MAX_TAG
          THEN /\ ret = [type |-> "bool", bytes |-> <<>>, n |-> 0]
               /\ packet_entries = entries_before
          ELSE /\ ret = [type |-> "bool", bytes |-> <<>>, n |-> 1]
               /\ \A t \in TouchedTags \ {op.tag} :
                    Entry(packet_entries, t) = Entry(entries_before, t)
               /\ Entry(packet_entries, op.tag).packet
                    = Entry(entries_before, op.tag).packet
               /\ get_packet_entry(op.tag) = op.tag
               /\ Entry(packet_entries,
                        get_packet_entry(op.tag)).packet_size = 0
    /\ (pc = "done" /\ op.name = "get_packet_entry")
       => /\ ret.type = "entry"
          /\ ret.n = (IF op.tag >= MAX_TAG THEN NULL ELSE op.tag)
          /\ packet_entries = entries_before

\* C8 witness: a release of tag 0 emptied a populated entry
C8_Witness ==
    /\ pc = "done"
    /\ op.name = "release_packet_entry"
    /\ op.tag = 0
    /\ Populated(Entry(entries_before, 0))
    /\ ~Populated(Entry(packet_entries, 0))
    /\ ret.n = 1

\* the receive in progress started on a stream that begins with a packet
\* whose header declares a length L with header_size <= L <= 512, all L
\* bytes of it sent by the peer
WellFramed ==
    /\ nrecv > 0
    /\ Len(stream_before) >= HDR
    /\ payload_length(stream_before) >= HDR
    /\ payload_length(stream_before) <= MAX_PAYLOAD_SIZE
    /\ Len(stream_before) >= payload_length(stream_before)

\* C9: framing round trip.  For a packet whose declared length L satisfies
\* header_size <= L <= 512, however its bytes are split across reads, the
\* receive never runs into the overflow guard and never writes outside the
\* buffer, and once it has stored the packet it has consumed exactly L bytes
\* of the stream and slot 0 holds exactly those L bytes with length L, the
\* bytes of the next packet still on the stream.  (A receive ends early only
\* in a read that returns zero or less, in the deadline, or in the assertion
\* on a populated slot.)
C9_FramingRoundTrip ==
    WellFramed =>
        LET L == payload_length(stream_before)
        IN  /\ fail_cause \in {"none", "read", "rcvtimeo", "timeout"}
            /\ (fail_cause = "timeout") => elapsed > MAX_DURATION
            /\ oob = 0
            /\ pc # "crash"
            /\ consumed <= L
            /\ (pc = "wait_loop")
               => /\ consumed = L
                  /\ stream = SubSeq(stream_before, L + 1, Len(stream_before))
                  /\ Entry(packet_entries, 0).packet_size = L
                  /\ SubSeq(Entry(packet_entries, 0).packet, 1, L)
                       = SubSeq(stream_before, 1, L)

\* C9 witness: the largest packet, read in fragments, was stored whole while
\* the packet behind it is still on the stream
C9_Witness ==
    /\ WellFramed
    /\ pc = "wait_loop"
    /\ consumed = MAX_PAYLOAD_SIZE
    /\ net_left = 0
    /\ Len(stream) > 0
    /\ Entry(packet_entries, 0).packet_size = MAX_PAYLOAD_SIZE

\* C10: send_cxl_io_mem_write with size 8 and any 64-bit value sends the
\* MWR_64B packet whose data field is the value; with size 4 and any value
\* it sends the MWR_32B packet whose data field is the value's low 32 bits.
C10_MemWriteVariantBySize ==
    (pc \in {"done", "abort"} /\ op.name = "send_cxl_io_mem_write"
       /\ op.args.size \in {4, 8})
    => /\ pc = "done"
       /\ sent.called
       /\ IF op.args.size = 8
          THEN /\ sent.pkt.cxl_io_header.fmt_type = "MWR_64B"
               /\ sent.pkt.data = op.args.val
          ELSE /\ sent.pkt.cxl_io_header.fmt_type = "MWR_32B"
               /\ sent.pkt.data = SubSeq(op.args.val, 1, 4)

\* bit k of the natural number x
BitOf(x, k) == (x \div (2 ^ k)) % 2

\* the fixed size of the configuration packet a send builds
CfgPacketSize(name) ==
    IF name = "send_cxl_io_config_space_read"
    THEN SIZEOF_cxl_io_cfg_rd_packet_t
    ELSE SIZEOF_cxl_io_cfg_wr_packet_t

\* C11: for every cfg_addr <= 0xFFF and size s in 1..4 with
\* (cfg_addr & 3) + s <= 4, the configuration request handed to write() has
\* first_dw_be with exactly the bits (cfg_addr & 3) .. (cfg_addr & 3) + s - 1
\* set, last_dw_be = 0, reg_num = bits [7:2] and ext_reg_num = bits [11:8] of
\* cfg_addr, dest_id holding the bdf high byte first, and a system header
\* whose payload_length is the fixed size of the configuration packet.
C11_CfgRequestEncoding ==
    (pc = "done" /\ op.name \in CfgSends /\ ~InvalidCfgRequest(op.args))
    => LET h == sent.pkt.cfg_req_header
           a == op.args.offset
           lo == a % 4
       IN  /\ sent.called
           /\ \A k \in 0..7 :
                (BitOf(h.first_dw_be, k) = 1)
                   <=> (k >= lo /\ k < lo + op.args.size)
           /\ h.last_dw_be = 0
           /\ \A k \in 0..5 : BitOf(h.reg_num, k) = BitOf(a, k + 2)
           /\ h.reg_num < 64
           /\ \A k \in 0..3 : BitOf(h.ext_reg_num, k) = BitOf(a, k + 8)
           /\ h.ext_reg_num < 16
           /\ <<h.dest_id % 256, h.dest_id \div 256>>
                = <<op.args.bdf \div 256, op.args.bdf % 256>>
           /\ sent.pkt.system_header.payload_length = CfgPacketSize(op.name)

\* C11 witness: a type-0 configuration read of 2 bytes at offset 0x04 from
\* bus 1, device 1 was encoded with byte enable 0b0011
C11_Witness ==
    /\ pc = "done"
    /\ op.name = "send_cxl_io_config_space_read"
    /\ op.args.offset = 4 /\ op.args.size = 2 /\ op.args.type0
    /\ op.args.bdf = 264
    /\ sent.pkt.cfg_req_header.first_dw_be = 3
    /\ sent.pkt.cfg_req_header.reg_num = 1
    /\ sent.pkt.cxl_io_header.fmt_type = "CFG_RD0"

Bit64(v, k) == BitOf(v[(k \div 8) + 1], k % 8)
MemSends == {"send_cxl_mem_mem_write", "send_cxl_mem_mem_read"}
MemRequestAddr ==
    IF op.name = "send_cxl_mem_mem_write" THEN sent.pkt.m2s_rwd_header.addr
    ELSE sent.pkt.m2s_req_header.addr

\* C12: a CXL.mem read or write request carries addr = hpa >> 6: bit k of
\* addr is bit k + 6 of hpa and the top six bits are zero, so the low six
\* bits of hpa (the position inside the 64-byte unit) never reach the packet;
\* the write's payload_length is its headers plus the 64-byte access unit and
\* its data is the first 64 bytes the caller passed.
C12_MemRequestAddress ==
    (pc = "done" /\ op.name \in MemSends)
    => /\ sent.called
       /\ \A k \in 0..57 : Bit64(MemRequestAddr, k) = Bit64(op.args.hpa, k + 6)
       /\ \A k \in 58..63 : Bit64(MemRequestAddr, k) = 0
       /\ \A i \in 1..8 : MemRequestAddr[i] \in 0..255
       /\ (op.args.hpa = <<64, 0, 0, 0, 0, 0, 0, 0>>)
              => MemRequestAddr = <<1, 0, 0, 0, 0, 0, 0, 0>>
       /\ (op.name = "send_cxl_mem_mem_write")
              => /\ sent.pkt.system_header.payload_length
                        = SIZEOF_cxl_mem_m2s_rwd_headers + 64
                 /\ Len(sent.pkt.data) = 64
                 /\ \A i \in 1..64 : sent.pkt.data[i] = op.args.data[i]

C12_Witness ==
    /\ pc = "done" /\ op.name = "send_cxl_mem_mem_write" /\ sent.called
    /\ op.args.hpa = <<127, 0, 0, 0, 0, 0, 0, 0>>
    /\ MemRequestAddr = <<1, 0, 0, 0, 0, 0, 0, 0>>
    /\ Len(op.args.data) > 64

AllSends ==
    {"send_sideband_connection_request", "send_cxl_mem_mem_write",
     "send_cxl_mem_mem_read", "send_cxl_io_mem_read", "send_cxl_io_mem_write",
     "send_cxl_io_config_space_read", "send_cxl_io_config_space_write"}

\* C14: whenever a send operation calls write(), the payload_length field of
\* the packet's system header equals the byte count passed to that write(),
\* which is the size of the complete packet.
C14_PayloadLengthIsPacketSize ==
    (pc = "done" /\ op.name \in AllSends)
    => /\ sent.called
       /\ sent.asked > 0
       /\ sent.pkt.system_header.payload_length = sent.asked

C14_Witness ==
    /\ pc = "done" /\ op.name = "send_sideband_connection_request"
    /\ sent.called /\ sent.len = sent.asked
    /\ sent.pkt.system_header.payload_length
           = SIZEOF_sideband_connection_request_packet_t

MisSizedRequest ==
    \/ op.name = "send_cxl_io_mem_write" /\ op.args.size \notin {4, 8}
    \/ op.name = "send_cxl_io_mem_read" /\ op.args.size % 4 # 0

\* C18: a CXL.io memory write whose size is not 4 or 8, and a CXL.io memory
\* read whose size is not a multiple of 4, return false to the caller with
\* nothing written to the connection, and the process goes on to serve later
\* operations.
C18_MisSizedRequestRejected ==
    (pc \in {"done", "abort"} /\ MisSizedRequest)
    => /\ pc = "done"
       /\ ret = Bool(FALSE)
       /\ ~sent.called

\* wait_for_payload is inside its loop
Reading == pc \in {"hdr", "payload"} /\ total_bytes_read < payload_size

\* the call of wait_for_payload just returned false because no byte came
SilentPeerFailure ==
    /\ pc = "done" /\ fail_cause \in {"rcvtimeo", "timeout"}
    /\ total_bytes_read = 0

\* C13: a wait_for_payload that gets no byte from a connected peer returns
\* false no earlier than MAX_DURATION after it started and no later than one
\* time unit after that; no call returns false for a timeout before
\* MAX_DURATION or later than MAX_DURATION plus one receive timeout; and
\* every call of wait_for_payload leaves its loop, each read() returning
\* within the receive timeout.
C13_DeadlineAndTermination ==
    /\ [](SilentPeerFailure
            => elapsed >= MAX_DURATION /\ elapsed <= MAX_DURATION + 1)
    /\ []((pc = "done" /\ fail_cause \in {"rcvtimeo", "timeout"})
            => elapsed >= MAX_DURATION
               /\ elapsed <= MAX_DURATION + SO_RCVTIMEO)
    /\ (Reading ~> ~Reading)

C13_Witness ==
    /\ SilentPeerFailure /\ fail_cause = "rcvtimeo"
    /\ consumed = 0 /\ Len(stream) = 0 /\ net_left = MaxDisturbedReads
    /\ elapsed = MAX_DURATION

\* the catalog slots that hold a packet (an absent slot is an empty entry)
PopulatedTags ==
    {t \in DOMAIN packet_entries : Populated(packet_entries[t])}

TaggedSends == AllSends \ {"send_sideband_connection_request"}

\* C15: every tag a send operation hands out is 0, whether its write
\* succeeded or failed; catalog slots 1 .. MAX_TAG - 1 are always empty, so
\* the catalog holds at most one response that was not released.
C15_OnlyTagZero ==
    /\ tag_out \in {NoTag, 0}
    /\ (pc = "done" /\ op.name \in TaggedSends) => tag_out = 0
    /\ PopulatedTags \subseteq {0}
    /\ Cardinality(PopulatedTags) <= 1

C15_Witness ==
    /\ pc = "done" /\ op.name = "send_cxl_mem_mem_read"
    /\ ret = Bool(FALSE) /\ tag_out = 0
    /\ Entry(packet_entries, 0).packet_size > 0
    /\ Len(stream) > 0

\* how often the system call c was made
Calls(c) == Cardinality({i \in DOMAIN syscalls : syscalls[i] = c})

\* C16: create_socket_client returns -1 exactly when socket() fails, or the
\* host is neither a numeric address nor a name that resolves, or connect()
\* fails, and returns the socket otherwise; it calls connect() at most once,
\* on the one socket it created, and looks the name up only after the numeric
\* parse failed.
C16_ConnectOnceOrFail ==
    (pc = "done" /\ op.name = "create_socket_client")
    => LET e == op.args
           failed == \/ e.socket = -1
                     \/ e.inet_pton <= 0 /\ e.gethostbyname = NULL
                     \/ e.connect = -1
       IN  /\ (ret.n = -1) <=> failed
           /\ ~failed => ret.n = e.socket
           /\ Calls("socket") = 1
           /\ Calls("connect") <= 1
           /\ ~failed => Calls("connect") = 1
           /\ Calls("gethostbyname") <= 1
           /\ (Calls("gethostbyname") = 1)
                 <=> (e.socket # -1 /\ e.inet_pton <= 0)

C16_Witness ==
    /\ pc = "done" /\ op.name = "create_socket_client"
    /\ op.args.socket = 3 /\ op.args.inet_pton = 0
    /\ op.args.gethostbyname # NULL /\ op.args.connect = -1
    /\ ret = Int32(-1)
    /\ syscalls = <<"socket", "inet_pton", "gethostbyname", "connect">>

\* the length the header of the packet being received declares
DeclaredLength == payload_length(stream_before)

\* declared length - header size, in size_t arithmetic
DeclaredRest ==
    IF DeclaredLength >= HDR THEN DeclaredLength - HDR
    ELSE SIZE_T_MODULUS - (HDR - DeclaredLength)

\* C17: process_incoming_packets reads in two ordered phases.  The first
\* asks for exactly the header size at the front of the buffer; the second
\* starts only when those bytes are in, asks for exactly the declared length
\* minus the header size and writes behind the header; a failed header phase
\* ends the receive with no payload read and nothing stored; the catalog is
\* written only when the second phase has its bytes.
C17_TwoPhases ==
    [][/\ (pc = "hdr")
            => /\ payload_size = HDR /\ buffer_offset = 0
               /\ consumed <= HDR /\ consumed' <= HDR
               /\ pc' \in {"hdr", "payload", "done"}
       /\ (pc = "hdr" /\ pc' = "payload")
            => /\ total_bytes_read = HDR /\ consumed = HDR
               /\ SubSeq(buffer, 1, HDR) = SubSeq(stream_before, 1, HDR)
               /\ payload_size' = DeclaredRest
               /\ buffer_offset' = HDR
               /\ total_bytes_read' = 0
               /\ stream' = stream /\ packet_entries' = packet_entries
       /\ (pc = "hdr" /\ pc' = "done")
            => /\ consumed' < HDR
               /\ packet_entries' = packet_entries
               /\ ret' = WaitFailure(op.name)
       /\ (pc = "payload" /\ pc' = "payload")
            => SubSeq(buffer', 1, HDR) = SubSeq(buffer, 1, HDR)
       /\ (packet_entries' # packet_entries)
            => \/ pc = "idle"
               \/ /\ pc = "payload" /\ total_bytes_read = payload_size
                  /\ payload_size = DeclaredRest
                  /\ consumed = HDR + DeclaredRest
      ]_vars

C17_Witness ==
    /\ pc = "wait_loop" /\ nrecv = 1
    /\ consumed = DeclaredLength /\ DeclaredLength > HDR
    /\ payload_size = DeclaredLength - HDR
    /\ Entry(packet_entries, 0).packet_size = DeclaredLength
    /\ net_left < MaxDisturbedReads

\* a wait on a tag other than 0 that has a catalog slot has come to its end
NonZeroTagWaitEnded ==
    /\ pc \in {"done", "abort", "crash"}
    /\ op.name \in WaitNames
    /\ 0 < op.tag /\ op.tag < MAX_TAG

\* C19: a wait on a tag t with 0 < t < MAX_TAG never returns a packet: it
\* ends with its failure result after a failed receive, or in the assertion
\* that slot 0 is empty, and slot t is empty at that moment.
C19_NonZeroTagNeverServed ==
    NonZeroTagWaitEnded
    => /\ Entry(packet_entries, op.tag).packet_size = 0
       /\ \/ /\ pc = "done"
             /\ fail_cause # "none"
             /\ ret = FailureResult(op.name)
          \/ /\ pc = "abort"
             /\ ret.type = "assert" /\ ret.n = 156

C19_Witness ==
    /\ NonZeroTagWaitEnded /\ pc = "abort" /\ ret.n = 156
    /\ nrecv = 2 /\ op.name = "wait_for_cxl_mem_completion"
    /\ Entry(packet_entries, 0).packet_size = SIZEOF_cxl_mem_s2m_ndr_packet_t

CfgWait == op.name = "wait_for_cxl_io_cfg_completion"

\* C20: wait_for_cxl_io_cfg_completion with a non-null data pointer stores
\* 0xFFFFFFFF when the completion in the catalog has no data and the
\* packet's 32-bit data field when it has; with a null pointer it returns
\* only for a completion without data (any other stops at the assertion of
\* line 579); the catalog entry stays populated; and the caller's data
\* changes only in the step that returns a completion, so a wait that ends
\* on a failed receive leaves it as it was.
C20_CfgCompletionData ==
    /\ [](LET e == Entry(packet_entries, op.tag)
          IN  /\ (CfgWait /\ pc = "done" /\ fail_cause = "none")
                   => /\ e.packet_size \in {CPL, CPL32}
                      /\ op.data_null
                           => e.packet_size = CPL /\ data = <<>>
                      /\ (~op.data_null /\ e.packet_size = CPL)
                           => data = AllOnes32
                      /\ (~op.data_null /\ e.packet_size = CPL32)
                           => data = SubSeq(e.packet, CPL + 1, CPL + 4)
              /\ (CfgWait /\ pc = "abort" /\ ret.n = 579)
                   => op.data_null /\ e.packet_size \notin {0, CPL}
              /\ (CfgWait /\ pc = "abort" /\ ret.n # 156)
                   => e.packet_size # 0 /\ ret.n \in {579, 582})
    /\ [][(CfgWait /\ pc # "done")
            => /\ (data' # data)
                    => /\ pc = "wait_loop" /\ pc' = "done"
                       /\ fail_cause' = "none"
               /\ (pc' = "done")
                    => packet_entries' = packet_entries
               /\ (fail_cause' # "none") => data' = data]_vars

C20_Witness ==
    /\ CfgWait /\ pc = "done" /\ fail_cause = "none" /\ ~op.data_null
    /\ Entry(packet_entries, 0).packet_size = CPL32
    /\ data = <<120, 86, 52, 18>>
    /\ nrecv = 1

IoMemSends == {"send_cxl_io_mem_read", "send_cxl_io_mem_write"}

\* C21: a CXL.io memory request of size bytes carries the dword count
\* n = size / 4 split as length_upper = bits [9:8] of n and length_lower =
\* bits [7:0] of n, so that length_upper * 256 + length_lower = n, for every
\* n in 0..1023; a read request has format MRD_32B exactly when size is 4
\* and MRD_64B otherwise.
C21_LengthSplit ==
    (pc = "done" /\ op.name \in IoMemSends /\ op.args.size \div 4 < 1024)
    => LET n == op.args.size \div 4
           h == sent.pkt.cxl_io_header
       IN  /\ sent.called
           /\ h.length_upper \in 0..3 /\ h.length_lower \in 0..255
           /\ \A k \in 0..1 : BitOf(h.length_upper, k) = BitOf(n, k + 8)
           /\ \A k \in 0..7 : BitOf(h.length_lower, k) = BitOf(n, k)
           /\ (h.length_upper * 256) + h.length_lower = n
           /\ (op.name = "send_cxl_io_mem_write") => n \in {1, 2}
           /\ (op.name = "send_cxl_io_mem_read")
                => h.fmt_type = IF op.args.size = 4 THEN "MRD_32B"
                                ELSE "MRD_64B"

C21_Witness ==
    /\ pc = "done" /\ op.name = "send_cxl_io_mem_read" /\ sent.called
    /\ op.args.size = 4092
    /\ sent.pkt.cxl_io_header.length_upper = 3
    /\ sent.pkt.cxl_io_header.length_lower = 255
    /\ sent.pkt.cxl_io_header.fmt_type = "MRD_64B"

\* the address with bits [1:0] cleared, rebuilt from the two header fields:
\* byte 0 from addr_lower, bytes 1..7 from addr_upper read back to front
RecoverAddress(m) ==
    [i \in 1..8 |-> IF i = 1 THEN m.addr_lower * 4 ELSE m.addr_upper[9 - i]]

DwordAligned(hpa) == [i \in 1..8 |-> IF i = 1 THEN hpa[1] - (hpa[1] % 4)
                                     ELSE hpa[i]]

\* C22: a CXL.io memory request carries addr_lower = bits [7:2] of hpa and
\* addr_upper = bytes 1..7 of hpa, most significant first, so bits [63:2] of
\* hpa are recovered from the two fields, and of the addresses a request can
\* be made for, only those equal in bits [63:2] give the same two fields.
C22_AddressSplit ==
    (pc = "done" /\ op.name \in IoMemSends)
    => LET m == sent.pkt.mreq_header
           hpa == op.args.hpa
       IN  /\ sent.called
           /\ m.addr_lower \in 0..63
           /\ \A k \in 0..5 : BitOf(m.addr_lower, k) = Bit64(hpa, k + 2)
           /\ Len(m.addr_upper) = 7
           /\ \A i \in 1..7 : m.addr_upper[i] = hpa[9 - i]
           /\ RecoverAddress(m) = DwordAligned(hpa)
           /\ \A other \in Addresses :
                (\E k \in 2..63 : Bit64(other, k) # Bit64(hpa, k))
                => LET o == mreq_header(other, get_next_tag)
                   IN  <<o.addr_upper, o.addr_lower>>
                           # <<m.addr_upper, m.addr_lower>>

C22_Witness ==
    /\ pc = "done" /\ op.name = "send_cxl_io_mem_read" /\ sent.called
    /\ op.args.hpa = <<252, 16, 32, 48, 64, 80, 96, 112>>
    /\ sent.pkt.mreq_header.addr_lower = 63
    /\ sent.pkt.mreq_header.addr_upper = <<112, 96, 80, 64, 48, 32, 16>>

ValidLength(n) == n >= HDR /\ n <= MAX_PAYLOAD_SIZE

\* C23: every catalog entry has length 0 or a length L with
\* header size <= L <= MAX_PAYLOAD_SIZE: a receive that stores a packet
\* stores one whose declared length is in that range, with that length, and
\* a declared length below the header size never leads to a store.
C23_EntryLengths ==
    /\ [](\A t \in DOMAIN packet_entries :
             \/ packet_entries[t].packet_size = 0
             \/ ValidLength(packet_entries[t].packet_size))
    /\ [][(pc = "payload" /\ packet_entries' # packet_entries)
            => /\ ValidLength(DeclaredLength)
               /\ Entry(packet_entries', 0).packet_size = DeclaredLength
               /\ DOMAIN packet_entries' = DOMAIN packet_entries \cup {0}
         ]_vars
    /\ []((pc \in {"payload", "done"} /\ nrecv > 0 /\ consumed >= HDR
             /\ DeclaredLength < HDR)
            => packet_entries = entries_before)

C23_Witness ==
    /\ pc = "done" /\ fail_cause \in {"read", "rcvtimeo"}
    /\ nrecv = 1 /\ Len(stream_before) >= HDR
    /\ DeclaredLength < HDR
    /\ payload_size = DeclaredRest
    /\ consumed > HDR
    /\ packet_entries = EmptyCatalog

\* a wait for the data of a read request has returned a packet
DataWaitReturned ==
    /\ pc = "done" /\ op.name = "wait_for_cxl_mem_mem_data"
    /\ fail_cause = "none" /\ ret.type = "packet"

\* C24: the packet a wait returns is the peer's response to the request the
\* wait was made for, also when an earlier wait failed and its response
\* arrives late.
C24_ResponseMatchesRequest ==
    (DataWaitReturned /\ exchange.waited > 0)
    => ret.bytes = Response(exchange.waited)

\* a receive that began at a packet boundary, on a well-framed packet, has
\* failed
FailedOnWellFramed ==
    /\ WellFramed
    /\ pc = "done"
    /\ fail_cause # "none"
    /\ stream_before \in Scripts(FramingPackets, MaxPeerPackets)

\* C25: framing stays aligned across failures.  When a receive fails on a
\* well-framed packet, the bytes it has taken from the stream are none of
\* the packet or all of it, so the next receive on the connection starts
\* reading at a packet boundary.
C25_FramingStaysAligned ==
    FailedOnWellFramed => consumed \in {0, DeclaredLength}

\* a send operation has called write() and reports success
SendSucceeded ==
    /\ pc = "done"
    /\ op.name \in AllSends
    /\ sent.called
    /\ ret = Bool(TRUE)

\* C26: a send operation reports success only if the complete packet was put
\* on the stream: when it returns true, write() has accepted as many bytes
\* as the packet has.
C26_SuccessMeansComplete ==
    SendSucceeded => sent.len = sent.asked

\* a wait function is running
Waiting == op.name \in WaitNames /\ pc \in {"wait_loop", "hdr", "payload"}

\* the wait has returned, or the process has ended in an assertion or a
\* memory fault
WaitEnded == pc \in {"done", "abort", "crash"}

\* how a wait stands when process_incoming_packets has completed twice: the
\* second one failed the assertion on slot 0
AfterSecondReceive ==
    (nrecv = 2 /\ ~(pc \in {"hdr", "payload"}))
    => \/ pc = "done" /\ fail_cause # "none"
       \/ pc = "crash"
       \/ pc = "abort" /\ ret.n = 156

\* C27: every wait call ends after at most two calls of
\* process_incoming_packets, whatever the peer sends: a second receive that
\* completes fails the assertion on the occupied slot 0, so no wait goes on
\* consuming unexpected packets.
C27_WaitEndsWithinTwoReceives ==
    /\ [](nrecv <= 2 /\ AfterSecondReceive)
    /\ (Waiting ~> WaitEnded)

\* C27 witness: the second receive of a wait has completed and has stopped
\* the process in the assertion of line 156
C27_Witness ==
    /\ op.name \in WaitNames
    /\ nrecv = 2
    /\ pc = "abort"
    /\ ret.n = 156
    /\ Entry(packet_entries, 0).packet_size # 0

\* the descriptors create_socket_client has opened and not closed: one for
\* a socket() that succeeded, less one for each close()
OpenDescriptors ==
    (IF op.args.socket # -1 THEN Calls("socket") ELSE 0) - Calls("close")

\* C30: on every failure path of create_socket_client no socket is left
\* open: after a call that returned -1, as many descriptors are open as
\* before it.
C30_FailureLeavesNoSocket ==
    (pc = "done" /\ op.name = "create_socket_client" /\ ret.n = -1)
    => OpenDescriptors = 0

\* the walk from the window finds no device for the address: no usable
\* host bridge, no root port, no committed decoder, or nothing of a CXL
\* type below a local root port
ResolvesToNoDevice(e) ==
    \/ ~e.hb
    \/ ~e.rp
    \/ ~e.passthrough /\ (~e.cstate \/ ~e.committed)
    \/ ~e.remote /\ ~(e.dev \in DeviceTypes)

\* an access to a fixed memory window has returned
Dispatched(name) == pc = "done" /\ op.name = name

\* C28: in the dispatch of a fixed memory window, a read whose address
\* resolves to no device returns an error with the data set to 0, and a
\* write whose address resolves to no device returns success; neither
\* forwards anything to a device or to the remote end.
C28_NoDeviceDispatch ==
    /\ (Dispatched("cxl_read_cfmws") /\ ResolvesToNoDevice(op.args.env))
       => /\ ret = MemTx("MEMTX_ERROR")
          /\ data = Zero64
          /\ forwarded = <<>>
    /\ (Dispatched("cxl_write_cfmws") /\ ResolvesToNoDevice(op.args.env))
       => /\ ret = MemTx("MEMTX_OK")
          /\ forwarded = <<>>

\* C28 witness: a read through a host bridge whose decoder is not committed
\* has returned an error and has zeroed the caller's data
C28_Witness ==
    /\ Dispatched("cxl_read_cfmws")
    /\ op.args.env.hb /\ ~op.args.env.passthrough
    /\ op.args.env.cstate /\ ~op.args.env.committed
    /\ ret = MemTx("MEMTX_ERROR")
    /\ data = Zero64
    /\ forwarded = <<>>

\* the options of a window pass every validation
ValidOptions(o) ==
    /\ Len(o.targets) \in {1, 2, 3, 4, 6, 8, 12, 16}
    /\ o.size % (256 * MiB) = 0
    /\ o.has_interleave_granularity
       => o.interleave_granularity
            \in {256, 512, 1024, 2048, 4096, 8192, 16384}

\* a step of cxl_fixed_memory_window_config
ConfigStep == pc = "idle" /\ op'.name = "cxl_fixed_memory_window_config"

\* C29: cxl_fixed_memory_window_config appends a window to fixed_windows
\* only when every validation passes (interleave ways, size a multiple of
\* 256 MiB, interleave granularity), and then appends exactly one, with the
\* size and the targets of the options; on a validation error it leaves the
\* list as it was; a window without an explicit granularity gets the
\* encoded granularity 0.
C29_WindowAppendedOnlyIfValid ==
    [][ConfigStep =>
        LET o == op'.args
        IN  /\ ~ValidOptions(o) => fixed_windows' = fixed_windows
            /\ (fixed_windows' # fixed_windows)
               => /\ ValidOptions(o)
                  /\ Len(fixed_windows') = Len(fixed_windows) + 1
                  /\ SubSeq(fixed_windows', 1, Len(fixed_windows))
                       = fixed_windows
                  /\ LET fw == fixed_windows'[Len(fixed_windows')]
                     IN  /\ fw.size = o.size
                         /\ fw.targets = o.targets
                         /\ fw.num_targets = Len(o.targets)
                         /\ ~o.has_interleave_granularity
                            => fw.enc_int_gran = 0
            /\ (ValidOptions(o) /\ errp = NoErr)
               => fixed_windows' # fixed_windows]_vars

\* C29 witness: a second window, given without a granularity, was appended
\* with encoded granularity 0 after a window with an explicit granularity
C29_Witness ==
    /\ pc = "done" /\ op.name = "cxl_fixed_memory_window_config"
    /\ ~op.args.has_interleave_granularity
    /\ Len(fixed_windows) = 2
    /\ fixed_windows[1].enc_int_gran = 2
    /\ fixed_windows[2].enc_int_gran = 0
    /\ fixed_windows[2].size = 256 * MiB
    /\ errp = NoErr

====
